---------------------------- MODULE Spec2Model ----------------------------
(***************************************************************************)
(* State-machine model of the agent-based macro simulation in              *)
(* src/src/companies_house_abm/abm (agents, markets, Simulation).          *)
(*                                                                         *)
(* Numbers.  Every float of the program (money, prices, quantities, rates, *)
(* ratios) is an IEEE 754 binary64 number, held as a mantissa of 53 bits   *)
(* in two halves with an exponent of two, and every sum, product and       *)
(* quotient is rounded to the nearest such number as the processor rounds  *)
(* it, so that int(), comparisons and the 1e-9 floors of the program's     *)
(* divisions see the bits the program sees.  A power x ** y is the pow of  *)
(* the C library, computed step by step as the GNU C library 2.36 for      *)
(* x86-64 computes it; that library has one pow for processors with fused  *)
(* multiply-add and one for those without, and which one runs is an input  *)
(* (fast_fma).  sum() adds from the left, as CPython 3.11 does.  R(n) is   *)
(* the float written n / 1000 in decimal and N(k) the integer k.           *)
(* Head-counts and other counters are plain integers.                      *)
(*                                                                         *)
(* Randomness.  numpy's generator is a stream of draws fixed by what it    *)
(* was seeded with: the generator state is (seed, number of draws made)    *)
(* and the k-th uniform draw of a seed is Uniform(seed, k).  A generator   *)
(* built without a seed is seeded by the operating system, differently at  *)
(* every construction.                                                     *)
(*                                                                         *)
(* Exceptions.  A call that raises leaves the objects as they were when    *)
(* the exception was raised, and the exception is added to raised.         *)
(***************************************************************************)
EXTENDS Integers, Sequences, FiniteSets, TLC

VARIABLES
    sim,        \* the Simulation object of the current run (config, agents, markets, rng)
    raised,     \* the exceptions the calls on the Simulation objects have raised
    call,       \* the run(periods) or step() call in progress and what it has collected
    pc,         \* position of Simulation.step within the period (index into StepOrder)
    trace,      \* names of the calls Simulation.step has made in the current period
    flow,       \* money flows measured while the current period's calls execute
    run,        \* 1 = first run, 2 = independent second run from the same inputs
    sim0,       \* the Simulation of the first run as its first step found it
    records1,   \* the PeriodRecords of the first run
    mk          \* a stand-alone agent (firms, central bank or bank) driven through its methods

vars == <<sim, raised, call, pc, trace, flow, run, sim0, records1, mk>>

---------------------------------------------------------------------------
(* Bounds of the model *)

MaxPeriods == 4
NumFirms == 3
NumHouseholds == 4
NumBanks == 2
MaxSeed == 5
EmployeesHigh == 4
MaxCalls == 3

---------------------------------------------------------------------------
(* Integer helpers *)

Max(a, b) == IF a >= b THEN a ELSE b
Min(a, b) == IF a <= b THEN a ELSE b
Abs(a) == IF a < 0 THEN -a ELSE a

RECURSIVE SumSeq(_)
SumSeq(s) == IF s = <<>> THEN 0 ELSE Head(s) + SumSeq(Tail(s))

\* the positions of a list of flags that are set
RECURSIVE Where(_)
Where(flags) ==
    IF flags = <<>> THEN <<>>
    ELSE LET front == Where(SubSeq(flags, 1, Len(flags) - 1))
         IN IF flags[Len(flags)] THEN Append(front, Len(flags)) ELSE front

---------------------------------------------------------------------------
(* Floating-point arithmetic *)

\* The program's floats are IEEE 754 binary64 numbers.  A number other than 0
\* is sign x (|hi| x 2^28 + lo) x 2^e with a mantissa |hi| x 2^28 + lo of
\* exactly 53 bits (2^24 <= |hi| < 2^25, 0 <= lo < 2^28) that carries its
\* sign in hi; every operation returns the nearest such number to the exact
\* result, ties to the even mantissa, as the processor does.  The arithmetic
\* is written as functions, the arguments of which are evaluated once, with
\* an operator of the usual name in front of each.

Two(k) == 2^k

\* the base of the four limbs of a mantissa in a product
Word == Two(14)

\* the weight of the high half of a mantissa
Half == Two(28)

Zero == [ hi |-> 0, lo |-> 0, e |-> 0 ]

Float == [ hi : Int, lo : Int, e : Int ]

Negated[a \in Float] == [ a EXCEPT !.hi = -a.hi ]

Neg(a) == Negated[a]

Signed[negative \in BOOLEAN, a \in Float] == IF negative THEN Negated[a] ELSE a

\* the low half l with its last bit set when bits below it were lost
Sticky[l \in Int, lost \in Int] == IF lost > 0 /\ l % 2 = 0 THEN l + 1 ELSE l

\* the mantissa hi x 2^28 + lo, one more when the three bits rem cut off
\* below it are above one half, or are one half and the mantissa is odd
Nearest[hi \in Int, lo \in Int, rem \in Int, e \in Int] ==
    IF rem < 4 \/ (rem = 4 /\ lo % 2 = 0) THEN [ hi |-> hi, lo |-> lo, e |-> e ]
    ELSE IF lo + 1 < Half THEN [ hi |-> hi, lo |-> lo + 1, e |-> e ]
    ELSE IF hi + 1 < Two(25) THEN [ hi |-> hi + 1, lo |-> 0, e |-> e ]
    ELSE [ hi |-> Two(24), lo |-> 0, e |-> e + 1 ]

\* the number nearest to (h x 2^28 + l) x 2^e for h, l >= 0: the value is
\* brought to 56 bits and its last three bits are rounded off; the last bit
\* of a value of 55 bits or more may stand for a remainder below it
Rounded[h \in Int, l \in Int, e \in Int] ==
    IF h = 0 /\ l = 0 THEN Zero
    ELSE IF h >= Half
    THEN Rounded[h \div 2, Sticky[(h % 2) * Two(27) + l \div 2, l % 2], e + 1]
    ELSE IF h < Two(19)
    THEN Rounded[h * 256 + l \div Two(20), (l % Two(20)) * 256, e - 8]
    ELSE IF h < Two(27)
    THEN Rounded[h * 2 + l \div Two(27), (l % Two(27)) * 2, e - 1]
    ELSE Nearest[h \div 8, (h % 8) * Two(25) + l \div 8, l % 8, e + 3]

\* the same for a low half that holds a carry or a borrow
Join[h \in Int, l \in Int, e \in Int] == Rounded[h + l \div Half, l % Half, e]

\* the integer k
N(k) == Signed[k < 0, Join[0, Abs(k), 0]]

\* (h x 2^28 + l) / 2^d rounded down, by halves, the last bit set when bits
\* were lost
Shifted[h \in Int, l \in Int, d \in Int] ==
    IF d >= 28 THEN Shifted[0, Sticky[h, l], d - 28]
    ELSE << h \div Two(d),
            Sticky[(h % Two(d)) * Two(28 - d) + l \div Two(d), l % Two(d)] >>

\* |a| < |b|, for numbers other than 0
Weaker[a \in Float, b \in Float] ==
    \/ a.e < b.e
    \/ a.e = b.e /\ Abs(a.hi) < Abs(b.hi)
    \/ a.e = b.e /\ Abs(a.hi) = Abs(b.hi) /\ a.lo < b.lo

\* h x 2^28 + l plus or minus the shifted mantissa s, times 2^e
Aligned[h \in Int, l \in Int, s \in Seq(Int), sign \in Int, e \in Int] ==
    Join[h + sign * s[1], l + sign * s[2], e]

\* a + b: the mantissas with three more bits, that of b shifted to the
\* exponent of a
Added[a \in Float, b \in Float] ==
    IF a.hi = 0 THEN b
    ELSE IF b.hi = 0 THEN a
    ELSE IF Weaker[a, b] THEN Added[b, a]
    ELSE IF a.e - b.e >= 55 THEN a
    ELSE Signed[a.hi < 0,
                Aligned[Abs(a.hi) * 8 + a.lo \div Two(25), (a.lo % Two(25)) * 8,
                        Shifted[Abs(b.hi) * 8 + b.lo \div Two(25),
                                (b.lo % Two(25)) * 8, a.e - b.e],
                        IF (a.hi < 0) = (b.hi < 0) THEN 1 ELSE -1, a.e - 3]]

Plus(a, b) == Added[a, b]

Minus(a, b) == Added[a, Negated[b]]

\* the four limbs of the mantissa of a, the lowest first
Limbs[a \in Float] ==
    << a.lo % Word, a.lo \div Word, Abs(a.hi) % Word, Abs(a.hi) \div Word >>

\* the digits in base Word of the number with the columns c from the k-th on
Digits[c \in Seq(Int), k \in Int, carry \in Int] ==
    IF k > Len(c) THEN << >>
    ELSE << (c[k] + carry) % Word >> \o Digits[c, k + 1, (c[k] + carry) \div Word]

\* the product with the digits p, cut after its first 56 bits, times 2^e
Placed[p \in Seq(Int), e \in Int] ==
    Rounded[p[6] \div 256 + p[7] * 64 + p[8] * Two(20),
            Sticky[p[4] \div 256 + p[5] * 64 + (p[6] % 256) * Two(20),
                   p[1] + p[2] + p[3] + (p[4] % 256)],
            e + 50]

\* the eight digits of the product of the mantissas with the limbs x and y
ProductDigits[x \in Seq(Int), y \in Seq(Int)] ==
    Digits[<< x[1] * y[1],
              x[1] * y[2] + x[2] * y[1],
              x[1] * y[3] + x[2] * y[2] + x[3] * y[1],
              x[1] * y[4] + x[2] * y[3] + x[3] * y[2] + x[4] * y[1],
              x[2] * y[4] + x[3] * y[3] + x[4] * y[2],
              x[3] * y[4] + x[4] * y[3],
              x[4] * y[4], 0 >>, 1, 0]

\* the product of the mantissas with the limbs x and y, times 2^e
LimbProduct[x \in Seq(Int), y \in Seq(Int), e \in Int] == Placed[ProductDigits[x, y], e]

Multiplied[a \in Float, b \in Float] ==
    IF a.hi = 0 \/ b.hi = 0 THEN Zero
    ELSE Signed[(a.hi < 0) # (b.hi < 0), LimbProduct[Limbs[a], Limbs[b], a.e + b.e]]

Times(a, b) == Multiplied[a, b]

\* k more bits of the quotient q of a division by bh x 2^28 + bl, with the
\* remainder rh x 2^28 + rl doubled after each bit: <<quotient, remainder>>
Bits[q \in Int, rh \in Int, rl \in Int, bh \in Int, bl \in Int, k \in Int] ==
    IF k = 0 THEN << q, rh, rl >>
    ELSE IF rh > bh \/ (rh = bh /\ rl >= bl)
    THEN Bits[q * 2 + 1, (rh - bh) * 2 + ((rl - bl) * 2) \div Half,
              ((rl - bl) * 2) % Half, bh, bl, k - 1]
    ELSE Bits[q * 2, rh * 2 + (rl * 2) \div Half, (rl * 2) % Half, bh, bl, k - 1]

\* the quotient of 56 bits from its high half and the <<low half, remainder>>
Finished[qh \in Int, v \in Seq(Int), e \in Int] ==
    Rounded[qh, Sticky[v[1], v[2] + v[3]], e]

\* the low half of the quotient after the <<high half, remainder>> u
Lower[u \in Seq(Int), bh \in Int, bl \in Int, e \in Int] ==
    Finished[u[1], Bits[0, u[2], u[3], bh, bl, 28], e]

\* a / b for b # 0: 56 bits of the quotient of the mantissas
Divided[a \in Float, b \in Float \ { Zero }] ==
    IF a.hi = 0 THEN Zero
    ELSE Signed[(a.hi < 0) # (b.hi < 0),
                Lower[Bits[0, Abs(a.hi), a.lo, Abs(b.hi), b.lo, 28],
                      Abs(b.hi), b.lo, a.e - b.e - 55]]

Over(a, b) == Divided[a, b]

\* the decimal literal m x 10^e
Norm(m, e) == IF e < 0 THEN Over(N(m), N(10^(-e))) ELSE N(m * 10^e)

\* the number n / 1000
R(n) == Norm(n, -3)

One == N(1)

\* the 1e-9 floor of the program's divisions
Eps == Norm(1, -9)

Smaller[a \in Float, b \in Float] ==
    IF a.hi = 0 THEN b.hi > 0
    ELSE IF b.hi = 0 THEN a.hi < 0
    ELSE IF (a.hi < 0) # (b.hi < 0) THEN a.hi < 0
    ELSE IF a.hi > 0 THEN Weaker[a, b]
    ELSE Weaker[b, a]

Less(a, b) == Smaller[a, b]

LessEq(a, b) == a = b \/ Smaller[a, b]

Positive(a) == a.hi > 0

Negative(a) == a.hi < 0

FMax(a, b) == IF Smaller[a, b] THEN b ELSE a

FMin(a, b) == IF Smaller[b, a] THEN b ELSE a

FAbs(a) == IF a.hi < 0 THEN Negated[a] ELSE a

\* int(a): the integer part of a, as a number
Truncated[a \in Float] ==
    IF a.e >= 0 THEN a
    ELSE IF a.e <= -53 THEN Zero
    ELSE IF a.e > -28 THEN [ a EXCEPT !.lo = @ - (@ % Two(-a.e)) ]
    ELSE [ hi |-> a.hi - (IF a.hi < 0 THEN -1 ELSE 1) * (Abs(a.hi) % Two(-a.e - 28)),
           lo |-> 0, e |-> a.e ]

Trunc(a) == Truncated[a]

\* the entries of s added to start one after the other
RECURSIVE AddAll(_, _)
AddAll(start, s) ==
    IF s = <<>> THEN start
    ELSE Plus(AddAll(start, SubSeq(s, 1, Len(s) - 1)), s[Len(s)])

\* sum(s), added up from the left
Sum(s) == AddAll(Zero, s)

\* max(s) for a list that is not empty
RECURSIVE MaxSeq(_)
MaxSeq(s) == IF Len(s) = 1 THEN s[1] ELSE FMax(Head(s), MaxSeq(Tail(s)))

\* the i-th pair of bits, from the top, of the 54 bits mh x 2^28 + ml; pairs
\* of zeros follow them
Pair[mh \in Int, ml \in Int, i \in Int] ==
    IF i <= 13 THEN (mh \div Two(26 - 2 * i)) % 4
    ELSE IF i <= 27 THEN (ml \div Two(54 - 2 * i)) % 4
    ELSE 0

\* the remainder rh x 2^28 + rl with the next pair p of bits brought down
Brought[rh \in Int, rl \in Int, p \in Int] ==
    << rh * 4 + (rl * 4 + p) \div Half, (rl * 4 + p) % Half >>

\* the next bit of a square root and the remainder it leaves: the bit is 1
\* when the remainder r holds t, four times the root so far plus one
Taken[r \in Seq(Int), t \in Seq(Int)] ==
    IF r[1] > t[1] \/ (r[1] = t[1] /\ r[2] >= t[2])
    THEN << 1, r[1] - t[1] + (r[2] - t[2]) \div Half, (r[2] - t[2]) % Half >>
    ELSE << 0, r[1], r[2] >>

\* the root qh x 2^28 + ql found so far takes the bit u[1], which left the
\* remainder u[2] x 2^28 + u[3], and the bits from the i-th to the 56th are
\* found the same way: <<high half, low half, remainder>>
Roots[qh \in Int, ql \in Int, u \in Seq(Int), mh \in Int, ml \in Int, i \in Int] ==
    IF i > 56
    THEN << qh * 2 + (ql * 2 + u[1]) \div Half, (ql * 2 + u[1]) % Half, u[2] + u[3] >>
    ELSE Roots[qh * 2 + (ql * 2 + u[1]) \div Half, (ql * 2 + u[1]) % Half,
               Taken[Brought[u[2], u[3], Pair[mh, ml, i]],
                     Brought[qh * 2 + (ql * 2 + u[1]) \div Half,
                             (ql * 2 + u[1]) % Half, 1]],
               mh, ml, i + 1]

\* the root v of 56 bits, times 2^e
Root[v \in Seq(Int), e \in Int] == Rounded[v[1], Sticky[v[2], v[3]], e]

\* the square root of a >= 0: 56 bits of the root of the mantissa, which is
\* doubled when the exponent is odd
Rooted[a \in Float] ==
    IF a.hi = 0 THEN Zero
    ELSE IF a.e % 2 = 0
    THEN Root[Roots[0, 0, << 0, 0, 0 >>, a.hi, a.lo, 1], (a.e - 58) \div 2]
    ELSE Root[Roots[0, 0, << 0, 0, 0 >>, a.hi * 2 + (a.lo * 2) \div Half,
                    (a.lo * 2) % Half, 1],
              (a.e - 59) \div 2]

\* math.sqrt
Sqrt(a) == Rooted[a]

---------------------------------------------------------------------------
(* Fused multiply-add *)

\* the number of bits of n >= 0
Width[n \in Int] == IF n = 0 THEN 0 ELSE 1 + Width[n \div 2]

Zeros[n \in Int] == [ k \in 1..n |-> 0 ]

\* the digits d times f, as digits: one more than d has
Scaled[d \in Seq(Int), f \in Int] ==
    Digits[[ k \in 1..Len(d) + 1 |-> IF k <= Len(d) THEN d[k] * f ELSE 0 ], 1, 0]

\* the 16 digits of the number with the digits d, times 2^s
Wide[d \in Seq(Int), s \in Int] ==
    Zeros[s \div 14] \o Scaled[d, Two(s % 14)] \o Zeros[15 - Len(d) - s \div 14]

\* the digits of x + sign x y; the last digit of a number below 0 is Word - 1
Combined[x \in Seq(Int), y \in Seq(Int), sign \in Int] ==
    Digits[[ k \in 1..Len(x) |-> x[k] + sign * y[k] ], 1, 0]

\* the place of the highest digit of d, from the k-th down, that is not 0
Top[d \in Seq(Int), k \in Int] == IF k = 0 \/ d[k] # 0 THEN k ELSE Top[d, k - 1]

\* the k-th digit of d, 0 below the first
Digit[d \in Seq(Int), k \in Int] == IF k < 1 THEN 0 ELSE d[k]

\* the number nearest to the one with the digits d times 2^e, the highest
\* digit of which is the m-th and has 14 bits: its first 56 bits, the last
\* one set when a digit below them is not 0
Cut[d \in Seq(Int), m \in Int, e \in Int] ==
    Rounded[d[m] * Word + Digit[d, m - 1],
            Sticky[Digit[d, m - 2] * Word + Digit[d, m - 3],
                   SumSeq(SubSeq(d, 1, m - 4))],
            e + 14 * (m - 4)]

\* the number nearest to the one with the digits d times 2^e
Nearby[d \in Seq(Int), m \in Int, e \in Int] ==
    IF m = 0 THEN Zero
    ELSE Cut[Scaled[d, Two(14 - Width[d[m]])], m, e - (14 - Width[d[m]])]

\* the number nearest to (x + y) 2^e or to (x - y) 2^e for digits x and y, with
\* the sign of x
Summed[x \in Seq(Int), y \in Seq(Int), negative \in BOOLEAN, same \in BOOLEAN,
       e \in Int] ==
    IF same THEN Signed[negative, Nearby[Combined[x, y, 1], Top[Combined[x, y, 1], 16], e]]
    ELSE IF Combined[x, y, -1][16] = 0
    THEN Signed[negative, Nearby[Combined[x, y, -1], Top[Combined[x, y, -1], 16], e]]
    ELSE Signed[~negative, Nearby[Combined[y, x, -1], Top[Combined[y, x, -1], 16], e]]

\* a x b + c rounded once: the product of the mantissas in full and the
\* mantissa of c, brought to the lower of the two exponents, are added.  A c
\* too small to reach the last bit of the product counts as any such c does,
\* and a product too small to reach one quarter of the last bit of c
\* leaves c.
Fused[a \in Float, b \in Float, c \in Float] ==
    IF a.hi = 0 \/ b.hi = 0 THEN c
    ELSE IF c.hi = 0 THEN Multiplied[a, b]
    ELSE IF c.e - (a.e + b.e) >= 110 THEN c
    ELSE IF c.e - (a.e + b.e) < -56
    THEN Fused[a, b, [ hi |-> IF c.hi < 0 THEN -Two(24) ELSE Two(24), lo |-> 0,
                       e |-> a.e + b.e - 56 ]]
    ELSE Summed[Wide[ProductDigits[Limbs[a], Limbs[b]], Max(0, a.e + b.e - c.e)],
                Wide[Limbs[c], Max(0, c.e - (a.e + b.e))],
                (a.hi < 0) # (b.hi < 0), ((a.hi < 0) # (b.hi < 0)) = (c.hi < 0),
                Min(a.e + b.e, c.e)]

---------------------------------------------------------------------------
(* Powers *)

\* x ** y is the pow(x, y) of the C library, which does not round the power
\* to the nearest float as the processor rounds a product: it computes
\* exp(y log x) from two tables and two polynomials and may end one unit in
\* the last place away.  The library holds the function twice and runs the
\* one that fits the processor: compiled with fused multiply-add
\* (fast_fma), where every a x b + c of the function is rounded once, and
\* compiled without, where the product is rounded first.  The two can differ
\* in the last place.

Bin(h, l, e) == [ hi |-> h, lo |-> l, e |-> e ]

\* the data of the logarithm: log 2 in two parts, the polynomial of
\* log(1 + r) - r and, for each of 128 intervals of z, 1/c, log c and the rest
\* of log c for a c near the middle of the interval
pow_log_data ==
    [ ln2hi |-> Bin(23258159, 251279360, -53), ln2lo |-> Bin(32454009, 63399728, -97),
      poly |-> << Bin(-16777216, 0, -53),
                  Bin(-22369621, 89478496, -53),
                  Bin(16777216, 6, -53),
                  Bin(26843545, 156849486, -53),
                  Bin(-22369621, 86615162, -53),
                  Bin(-19174841, 189285865, -52),
                  Bin(16777912, 187056067, -52) >>,
      tab |-> <<
        [ invc |-> Bin(23724032, 0, -52), logc |-> Bin(-23250991, 45729792, -54), logctail |-> Bin(28000834, 137844352, -100) ],
        [ invc |-> Bin(23592960, 0, -52), logc |-> Bin(-22879195, 257427456, -54), logctail |-> Bin(-30036109, 148961056, -98) ],
        [ invc |-> Bin(23461888, 0, -52), logc |-> Bin(-22505329, 121985024, -54), logctail |-> Bin(-20326989, 95834221, -97) ],
        [ invc |-> Bin(23330816, 0, -52), logc |-> Bin(-22129368, 120453120, -54), logctail |-> Bin(-23613001, 246441941, -101) ],
        [ invc |-> Bin(23199744, 0, -52), logc |-> Bin(-21751289, 91715584, -54), logctail |-> Bin(-21083801, 53034720, -99) ],
        [ invc |-> Bin(23068672, 0, -52), logc |-> Bin(-21371068, 35414016, -54), logctail |-> Bin(20808436, 139232460, -98) ],
        [ invc |-> Bin(22937600, 0, -52), logc |-> Bin(-20988680, 109488128, -54), logctail |-> Bin(29634366, 226626362, -102) ],
        [ invc |-> Bin(22806528, 0, -52), logc |-> Bin(-20604101, 90785792, -54), logctail |-> Bin(17505384, 106009696, -97) ],
        [ invc |-> Bin(22675456, 0, -52), logc |-> Bin(-20217305, 177766400, -54), logctail |-> Bin(22385885, 80052370, -97) ],
        [ invc |-> Bin(22544384, 0, -52), logc |-> Bin(-19828267, 182525952, -54), logctail |-> Bin(23572969, 162999256, -97) ],
        [ invc |-> Bin(22413312, 0, -52), logc |-> Bin(-19436961, 64915456, -54), logctail |-> Bin(22847819, 114274367, -98) ],
        [ invc |-> Bin(22413312, 0, -52), logc |-> Bin(-19436961, 64915456, -54), logctail |-> Bin(22847819, 114274367, -98) ],
        [ invc |-> Bin(22282240, 0, -52), logc |-> Bin(-19043359, 198146048, -54), logctail |-> Bin(-23437890, 139713142, -98) ],
        [ invc |-> Bin(22151168, 0, -52), logc |-> Bin(-18647436, 23697408, -54), logctail |-> Bin(-33225670, 149378052, -98) ],
        [ invc |-> Bin(22020096, 0, -52), logc |-> Bin(-18249162, 195799040, -54), logctail |-> Bin(32636003, 58894576, -98) ],
        [ invc |-> Bin(21889024, 0, -52), logc |-> Bin(-17848511, 162416640, -54), logctail |-> Bin(-23759951, 218454630, -97) ],
        [ invc |-> Bin(21757952, 0, -52), logc |-> Bin(-17445454, 41127936, -54), logctail |-> Bin(-29802215, 250872590, -99) ],
        [ invc |-> Bin(21626880, 0, -52), logc |-> Bin(-17039961, 78958592, -54), logctail |-> Bin(-17001353, 250883455, -100) ],
        [ invc |-> Bin(21626880, 0, -52), logc |-> Bin(-17039961, 78958592, -54), logctail |-> Bin(-17001353, 250883455, -100) ],
        [ invc |-> Bin(21495808, 0, -52), logc |-> Bin(-33264006, 224280576, -55), logctail |-> Bin(30765738, 194591879, -99) ],
        [ invc |-> Bin(21364736, 0, -52), logc |-> Bin(-32443100, 198991872, -55), logctail |-> Bin(28470137, 210153252, -97) ],
        [ invc |-> Bin(21233664, 0, -52), logc |-> Bin(-31617142, 237694976, -55), logctail |-> Bin(-24311029, 71302928, -98) ],
        [ invc |-> Bin(21102592, 0, -52), logc |-> Bin(-30786070, 189775872, -55), logctail |-> Bin(18589979, 197814299, -97) ],
        [ invc |-> Bin(20971520, 0, -52), logc |-> Bin(-29949820, 127574016, -55), logctail |-> Bin(24614134, 144671796, -97) ],
        [ invc |-> Bin(20971520, 0, -52), logc |-> Bin(-29949820, 127574016, -55), logctail |-> Bin(24614134, 144671796, -97) ],
        [ invc |-> Bin(20840448, 0, -52), logc |-> Bin(-29108327, 70094848, -55), logctail |-> Bin(26536707, 25933711, -98) ],
        [ invc |-> Bin(20709376, 0, -52), logc |-> Bin(-28261524, 243318784, -55), logctail |-> Bin(27584051, 265130086, -104) ],
        [ invc |-> Bin(20578304, 0, -52), logc |-> Bin(-27409345, 266514432, -55), logctail |-> Bin(-22595149, 205963754, -97) ],
        [ invc |-> Bin(20578304, 0, -52), logc |-> Bin(-27409345, 266514432, -55), logctail |-> Bin(-22595149, 205963754, -97) ],
        [ invc |-> Bin(20447232, 0, -52), logc |-> Bin(-26551721, 217337856, -55), logctail |-> Bin(-28122512, 79811811, -97) ],
        [ invc |-> Bin(20316160, 0, -52), logc |-> Bin(-25688582, 86036480, -55), logctail |-> Bin(29088759, 266074633, -97) ],
        [ invc |-> Bin(20185088, 0, -52), logc |-> Bin(-24819856, 34660352, -55), logctail |-> Bin(29210887, 39012952, -97) ],
        [ invc |-> Bin(20185088, 0, -52), logc |-> Bin(-24819856, 34660352, -55), logctail |-> Bin(29210887, 39012952, -97) ],
        [ invc |-> Bin(20054016, 0, -52), logc |-> Bin(-23945470, 119132160, -55), logctail |-> Bin(-17712810, 62055014, -98) ],
        [ invc |-> Bin(19922944, 0, -52), logc |-> Bin(-23065351, 10981376, -55), logctail |-> Bin(-32105529, 252727353, -98) ],
        [ invc |-> Bin(19922944, 0, -52), logc |-> Bin(-23065351, 10981376, -55), logctail |-> Bin(-32105529, 252727353, -98) ],
        [ invc |-> Bin(19791872, 0, -52), logc |-> Bin(-22179422, 60928000, -55), logctail |-> Bin(-17688761, 482191, -97) ],
        [ invc |-> Bin(19660800, 0, -52), logc |-> Bin(-21287606, 214663168, -55), logctail |-> Bin(24169494, 20281404, -98) ],
        [ invc |-> Bin(19660800, 0, -52), logc |-> Bin(-21287606, 214663168, -55), logctail |-> Bin(24169494, 20281404, -98) ],
        [ invc |-> Bin(19529728, 0, -52), logc |-> Bin(-20389826, 2002944, -55), logctail |-> Bin(18319460, 220681274, -100) ],
        [ invc |-> Bin(19398656, 0, -52), logc |-> Bin(-19485999, 136310784, -55), logctail |-> Bin(-21549825, 124896264, -97) ],
        [ invc |-> Bin(19267584, 0, -52), logc |-> Bin(-18576045, 86990848, -55), logctail |-> Bin(-31984193, 135373718, -97) ],
        [ invc |-> Bin(19267584, 0, -52), logc |-> Bin(-18576045, 86990848, -55), logctail |-> Bin(-31984193, 135373718, -97) ],
        [ invc |-> Bin(19136512, 0, -52), logc |-> Bin(-17659879, 214994944, -55), logctail |-> Bin(27695464, 149445620, -99) ],
        [ invc |-> Bin(19136512, 0, -52), logc |-> Bin(-17659879, 214994944, -55), logctail |-> Bin(27695464, 149445620, -99) ],
        [ invc |-> Bin(19005440, 0, -52), logc |-> Bin(-33474835, 31186944, -56), logctail |-> Bin(-22500677, 212022258, -97) ],
        [ invc |-> Bin(18874368, 0, -52), logc |-> Bin(-31617142, 237699072, -56), logctail |-> Bin(27476674, 183500860, -97) ],
        [ invc |-> Bin(18874368, 0, -52), logc |-> Bin(-31617142, 237699072, -56), logctail |-> Bin(27476674, 183500860, -97) ],
        [ invc |-> Bin(18743296, 0, -52), logc |-> Bin(-29746504, 257671168, -56), logctail |-> Bin(-30459253, 140492294, -98) ],
        [ invc |-> Bin(18612224, 0, -52), logc |-> Bin(-27862739, 172679168, -56), logctail |-> Bin(22254430, 140225224, -97) ],
        [ invc |-> Bin(18612224, 0, -52), logc |-> Bin(-27862739, 172679168, -56), logctail |-> Bin(22254430, 140225224, -97) ],
        [ invc |-> Bin(18481152, 0, -52), logc |-> Bin(-25965661, 103915520, -56), logctail |-> Bin(20431508, 221206120, -98) ],
        [ invc |-> Bin(18481152, 0, -52), logc |-> Bin(-25965661, 103915520, -56), logctail |-> Bin(20431508, 221206120, -98) ],
        [ invc |-> Bin(18350080, 0, -52), logc |-> Bin(-24055080, 182804480, -56), logctail |-> Bin(-23688060, 154366938, -97) ],
        [ invc |-> Bin(18219008, 0, -52), logc |-> Bin(-22130803, 252059648, -56), logctail |-> Bin(32515510, 29777495, -98) ],
        [ invc |-> Bin(18219008, 0, -52), logc |-> Bin(-22130803, 252059648, -56), logctail |-> Bin(32515510, 29777495, -98) ],
        [ invc |-> Bin(18087936, 0, -52), logc |-> Bin(-20192633, 102490112, -56), logctail |-> Bin(29748652, 217650143, -97) ],
        [ invc |-> Bin(18087936, 0, -52), logc |-> Bin(-20192633, 102490112, -56), logctail |-> Bin(29748652, 217650143, -97) ],
        [ invc |-> Bin(17956864, 0, -52), logc |-> Bin(-18240366, 245596160, -56), logctail |-> Bin(21480935, 110076681, -98) ],
        [ invc |-> Bin(17825792, 0, -52), logc |-> Bin(-32547596, 1146880, -57), logctail |-> Bin(30775784, 53907089, -97) ],
        [ invc |-> Bin(17825792, 0, -52), logc |-> Bin(-32547596, 1146880, -57), logctail |-> Bin(30775784, 53907089, -97) ],
        [ invc |-> Bin(17694720, 0, -52), logc |-> Bin(-28585431, 18448384, -57), logctail |-> Bin(29894574, 97939532, -98) ],
        [ invc |-> Bin(17694720, 0, -52), logc |-> Bin(-28585431, 18448384, -57), logctail |-> Bin(29894574, 97939532, -98) ],
        [ invc |-> Bin(17563648, 0, -52), logc |-> Bin(-24593807, 103989248, -57), logctail |-> Bin(-30393443, 83010030, -97) ],
        [ invc |-> Bin(17563648, 0, -52), logc |-> Bin(-24593807, 103989248, -57), logctail |-> Bin(-30393443, 83010030, -97) ],
        [ invc |-> Bin(17432576, 0, -52), logc |-> Bin(-20572283, 167690240, -57), logctail |-> Bin(22031231, 86441642, -100) ],
        [ invc |-> Bin(17432576, 0, -52), logc |-> Bin(-20572283, 167690240, -57), logctail |-> Bin(22031231, 86441642, -100) ],
        [ invc |-> Bin(17301504, 0, -52), logc |-> Bin(-33040816, 242745344, -58), logctail |-> Bin(-26739303, 209586660, -97) ],
        [ invc |-> Bin(17301504, 0, -52), logc |-> Bin(-33040816, 242745344, -58), logctail |-> Bin(-26739303, 209586660, -97) ],
        [ invc |-> Bin(17170432, 0, -52), logc |-> Bin(-24875440, 131432448, -58), logctail |-> Bin(-25744713, 66758201, -97) ],
        [ invc |-> Bin(17039360, 0, -52), logc |-> Bin(-33294987, 16515072, -59), logctail |-> Bin(-32630735, 114534044, -102) ],
        [ invc |-> Bin(17039360, 0, -52), logc |-> Bin(-33294987, 16515072, -59), logctail |-> Bin(-32630735, 114534044, -102) ],
        [ invc |-> Bin(16908288, 0, -52), logc |-> Bin(-33424038, 185597952, -60), logctail |-> Bin(-27141104, 232407268, -98) ],
        [ invc |-> Bin(16908288, 0, -52), logc |-> Bin(-33424038, 185597952, -60), logctail |-> Bin(-27141104, 232407268, -98) ],
        [ invc |-> Bin(16777216, 0, -52), logc |-> Zero, logctail |-> Zero ],
        [ invc |-> Bin(16777216, 0, -52), logc |-> Zero, logctail |-> Zero ],
        [ invc |-> Bin(33292288, 0, -53), logc |-> Bin(16843095, 92864512, -59), logctail |-> Bin(-17594041, 161295336, -98) ],
        [ invc |-> Bin(33030144, 0, -53), logc |-> Bin(16909669, 143884288, -58), logctail |-> Bin(-20825520, 115537874, -97) ],
        [ invc |-> Bin(32768000, 0, -53), logc |-> Bin(25465426, 147390464, -58), logctail |-> Bin(-27921315, 39455796, -97) ],
        [ invc |-> Bin(32505856, 0, -53), logc |-> Bin(17044952, 166150144, -57), logctail |-> Bin(17898501, 217175891, -99) ],
        [ invc |-> Bin(32243712, 0, -53), logc |-> Bin(21392109, 70123520, -57), logctail |-> Bin(-29452087, 96337192, -97) ],
        [ invc |-> Bin(31981568, 0, -53), logc |-> Bin(25774753, 77578240, -57), logctail |-> Bin(-26712413, 5908093, -98) ],
        [ invc |-> Bin(31719424, 0, -53), logc |-> Bin(30193468, 232636416, -57), logctail |-> Bin(-27692836, 131606535, -98) ],
        [ invc |-> Bin(31588352, 0, -53), logc |-> Bin(32416540, 442368, -57), logctail |-> Bin(-31527908, 264846203, -99) ],
        [ invc |-> Bin(31326208, 0, -53), logc |-> Bin(18445245, 21389312, -56), logctail |-> Bin(-22226389, 101555867, -97) ],
        [ invc |-> Bin(31064064, 0, -53), logc |-> Bin(20701018, 131194880, -56), logctail |-> Bin(30180842, 98258647, -97) ],
        [ invc |-> Bin(30801920, 0, -53), logc |-> Bin(22975908, 228040704, -56), logctail |-> Bin(-29790307, 207428894, -97) ],
        [ invc |-> Bin(30670848, 0, -53), logc |-> Bin(24120624, 183156736, -56), logctail |-> Bin(29485274, 161344818, -101) ],
        [ invc |-> Bin(30408704, 0, -53), logc |-> Bin(26424805, 223952896, -56), logctail |-> Bin(19994051, 180176858, -97) ],
        [ invc |-> Bin(30146560, 0, -53), logc |-> Bin(28748936, 229466112, -56), logctail |-> Bin(-20514818, 200763621, -98) ],
        [ invc |-> Bin(30015488, 0, -53), logc |-> Bin(29918592, 29114368, -56), logctail |-> Bin(23358748, 106605779, -97) ],
        [ invc |-> Bin(29753344, 0, -53), logc |-> Bin(32273304, 50995200, -56), logctail |-> Bin(-31196810, 266749408, -97) ],
        [ invc |-> Bin(29622272, 0, -53), logc |-> Bin(33458451, 165404672, -56), logctail |-> Bin(-22236516, 262212349, -97) ],
        [ invc |-> Bin(29360128, 0, -53), logc |-> Bin(17922280, 36167680, -55), logctail |-> Bin(18806668, 237832178, -97) ],
        [ invc |-> Bin(29229056, 0, -53), logc |-> Bin(18522807, 237236224, -55), logctail |-> Bin(30046436, 70818100, -97) ],
        [ invc |-> Bin(28966912, 0, -53), logc |-> Bin(19731984, 210141184, -55), logctail |-> Bin(20567756, 193049761, -99) ],
        [ invc |-> Bin(28835840, 0, -53), logc |-> Bin(20340683, 1413120, -55), logctail |-> Bin(23263874, 55276169, -103) ],
        [ invc |-> Bin(28573696, 0, -53), logc |-> Bin(21566424, 53719040, -55), logctail |-> Bin(22558613, 83736184, -97) ],
        [ invc |-> Bin(28442624, 0, -53), logc |-> Bin(22183518, 77705216, -55), logctail |-> Bin(23281294, 90799559, -97) ],
        [ invc |-> Bin(28180480, 0, -53), logc |-> Bin(23426283, 244060160, -55), logctail |-> Bin(27064498, 205270648, -98) ],
        [ invc |-> Bin(28049408, 0, -53), logc |-> Bin(24052008, 192245760, -55), logctail |-> Bin(-22091998, 94118369, -97) ],
        [ invc |-> Bin(27918336, 0, -53), logc |-> Bin(24680664, 88363008, -55), logctail |-> Bin(-29778183, 9519877, -98) ],
        [ invc |-> Bin(27656192, 0, -53), logc |-> Bin(25946878, 188284928, -55), logctail |-> Bin(-24368458, 183053521, -99) ],
        [ invc |-> Bin(27525120, 0, -53), logc |-> Bin(26584493, 217513984, -55), logctail |-> Bin(25109125, 144768879, -99) ],
        [ invc |-> Bin(27262976, 0, -53), logc |-> Bin(27868883, 210427904, -55), logctail |-> Bin(-25633845, 5644649, -97) ],
        [ invc |-> Bin(27131904, 0, -53), logc |-> Bin(28515717, 123457536, -55), logctail |-> Bin(-29579476, 246210986, -99) ],
        [ invc |-> Bin(27000832, 0, -53), logc |-> Bin(29165683, 138141696, -55), logctail |-> Bin(-30719045, 156504758, -97) ],
        [ invc |-> Bin(26869760, 0, -53), logc |-> Bin(29818812, 116396032, -55), logctail |-> Bin(-18794284, 93727698, -100) ],
        [ invc |-> Bin(26607616, 0, -53), logc |-> Bin(31134683, 13930496, -55), logctail |-> Bin(-28308143, 118861877, -97) ],
        [ invc |-> Bin(26476544, 0, -53), logc |-> Bin(31797487, 266801152, -55), logctail |-> Bin(18948726, 4322352, -103) ],
        [ invc |-> Bin(26345472, 0, -53), logc |-> Bin(32463582, 81592320, -55), logctail |-> Bin(-27398486, 96177681, -103) ],
        [ invc |-> Bin(26214400, 0, -53), logc |-> Bin(33132998, 213102592, -55), logctail |-> Bin(29146828, 168615728, -98) ],
        [ invc |-> Bin(25952256, 0, -53), logc |-> Bin(17240966, 5068800, -54), logctail |-> Bin(25808305, 116215441, -100) ],
        [ invc |-> Bin(25821184, 0, -53), logc |-> Bin(17580758, 123822080, -54), logctail |-> Bin(24217777, 104655593, -97) ],
        [ invc |-> Bin(25690112, 0, -53), logc |-> Bin(17922280, 36169728, -54), logctail |-> Bin(-29495526, 61206556, -97) ],
        [ invc |-> Bin(25559040, 0, -53), logc |-> Bin(18265548, 195885056, -54), logctail |-> Bin(28945631, 128259713, -97) ],
        [ invc |-> Bin(25427968, 0, -53), logc |-> Bin(18610582, 56256512, -54), logctail |-> Bin(30043861, 21478839, -97) ],
        [ invc |-> Bin(25296896, 0, -53), logc |-> Bin(18957398, 219068416, -54), logctail |-> Bin(27819499, 172407530, -99) ],
        [ invc |-> Bin(25034752, 0, -53), logc |-> Bin(19656455, 215781376, -54), logctail |-> Bin(27905956, 173016308, -97) ],
        [ invc |-> Bin(24903680, 0, -53), logc |-> Bin(20008734, 30629888, -54), logctail |-> Bin(-26093485, 52509880, -97) ],
        [ invc |-> Bin(24772608, 0, -53), logc |-> Bin(20362871, 113119232, -54), logctail |-> Bin(18279643, 15824840, -98) ],
        [ invc |-> Bin(24641536, 0, -53), logc |-> Bin(20718887, 120795136, -54), logctail |-> Bin(25408843, 101104988, -98) ],
        [ invc |-> Bin(24510464, 0, -53), logc |-> Bin(21076802, 64350208, -54), logctail |-> Bin(26100590, 210821277, -99) ],
        [ invc |-> Bin(24379392, 0, -53), logc |-> Bin(21436636, 41011200, -54), logctail |-> Bin(-32668896, 157800053, -97) ],
        [ invc |-> Bin(24248320, 0, -53), logc |-> Bin(21798409, 236400640, -54), logctail |-> Bin(-31590545, 185260196, -97) ],
        [ invc |-> Bin(24117248, 0, -53), logc |-> Bin(22162144, 121151488, -54), logctail |-> Bin(32237320, 23381849, -97) ],
        [ invc |-> Bin(23986176, 0, -53), logc |-> Bin(22527861, 63492096, -54), logctail |-> Bin(33218270, 240992495, -98) ],
        [ invc |-> Bin(23855104, 0, -53), logc |-> Bin(22895581, 257515520, -54), logctail |-> Bin(-27308704, 144991708, -99) ]
      >> ]

\* the data of the exponential: 128 / log 2, the shift that rounds to a whole
\* number, -log 2 / 128 in two parts, the polynomial of exp(r) - 1 - r and,
\* for each j in 0..127, 2^(j/128) and what it leaves out
exp_data ==
    [ invln2N |-> Bin(24204406, 86737662, -45), shift |-> Bin(25165824, 0, 0),
      negln2hiN |-> Bin(-23258159, 251265024, -60), negln2loN |-> Bin(-30374315, 211696442, -99),
      poly |-> << Bin(33554431, 268434877, -54),
                  Bin(22369621, 89478204, -55),
                  Bin(22369628, 253176721, -57),
                  Bin(17895702, 128241687, -59) >>,
      tab |-> <<
        [ tail |-> Zero, scale |-> Bin(16777216, 0, -52) ],
        [ tail |-> Bin(28554481, 176734062, -106), scale |-> Bin(16868314, 167457589, -52) ],
        [ tail |-> Bin(-18219321, 215538781, -108), scale |-> Bin(16959907, 242712673, -52) ],
        [ tail |-> Bin(-17164193, 8873681, -106), scale |-> Bin(17051998, 141459333, -52) ],
        [ tail |-> Bin(30221603, 90699283, -107), scale |-> Bin(17144589, 51742068, -52) ],
        [ tail |-> Bin(-29157378, 66686714, -107), scale |-> Bin(17237682, 165541598, -52) ],
        [ tail |-> Bin(17790182, 31901793, -109), scale |-> Bin(17331281, 141925320, -52) ],
        [ tail |-> Bin(17448517, 187945881, -106), scale |-> Bin(17425388, 180810627, -52) ],
        [ tail |-> Bin(24750693, 226720621, -106), scale |-> Bin(17520006, 217680143, -52) ],
        [ tail |-> Bin(32199081, 50196476, -107), scale |-> Bin(17615138, 192038903, -52) ],
        [ tail |-> Bin(32236503, 3120337, -112), scale |-> Bin(17710787, 47436194, -52) ],
        [ tail |-> Bin(-27276104, 160460299, -109), scale |-> Bin(17806954, 268358427, -52) ],
        [ tail |-> Bin(-22373666, 170900750, -106), scale |-> Bin(17903645, 1203025, -52) ],
        [ tail |-> Bin(-17305336, 206498389, -110), scale |-> Bin(18000860, 7090636, -52) ],
        [ tail |-> Bin(-18649659, 165016598, -106), scale |-> Bin(18098602, 245968352, -52) ],
        [ tail |-> Bin(17645118, 157046191, -107), scale |-> Bin(18196876, 145067601, -52) ],
        [ tail |-> Bin(-16888158, 178623304, -107), scale |-> Bin(18295683, 209539451, -52) ],
        [ tail |-> Bin(-32636677, 98447933, -107), scale |-> Bin(18395027, 143429098, -52) ],
        [ tail |-> Bin(28874947, 252924863, -107), scale |-> Bin(18494910, 191875957, -52) ],
        [ tail |-> Bin(-23960007, 101837606, -106), scale |-> Bin(18595336, 67394772, -52) ],
        [ tail |-> Bin(28233587, 238694240, -106), scale |-> Bin(18696307, 23640490, -52) ],
        [ tail |-> Bin(-33454124, 193345693, -107), scale |-> Bin(18797826, 50125085, -52) ],
        [ tail |-> Bin(27718676, 78037901, -107), scale |-> Bin(18899896, 140676310, -52) ],
        [ tail |-> Bin(17277019, 14943357, -107), scale |-> Bin(19002521, 25025686, -52) ],
        [ tail |-> Bin(23654366, 61384852, -106), scale |-> Bin(19105702, 242573880, -52) ],
        [ tail |-> Bin(24502671, 41175165, -107), scale |-> Bin(19209444, 263366207, -52) ],
        [ tail |-> Bin(17068729, 136308722, -107), scale |-> Bin(19313750, 98729181, -52) ],
        [ tail |-> Bin(-23824307, 259065950, -106), scale |-> Bin(19418622, 32859009, -52) ],
        [ tail |-> Bin(19889686, 218737457, -107), scale |-> Bin(19524063, 85974753, -52) ],
        [ tail |-> Bin(-30546353, 175095802, -112), scale |-> Bin(19630077, 14342544, -52) ],
        [ tail |-> Bin(28538919, 34343604, -107), scale |-> Bin(19736666, 115606283, -52) ],
        [ tail |-> Bin(31541544, 164547471, -109), scale |-> Bin(19843834, 155070294, -52) ],
        [ tail |-> Bin(20240212, 229682102, -107), scale |-> Bin(19951584, 171030293, -52) ],
        [ tail |-> Bin(23339038, 44856396, -107), scale |-> Bin(20059919, 206362673, -52) ],
        [ tail |-> Bin(33411989, 231995466, -107), scale |-> Bin(20168843, 40113919, -52) ],
        [ tail |-> Bin(-23738371, 193878788, -107), scale |-> Bin(20278357, 261267441, -52) ],
        [ tail |-> Bin(-19181276, 206262376, -106), scale |-> Bin(20388467, 121285067, -52) ],
        [ tail |-> Bin(-26247041, 189869454, -106), scale |-> Bin(20499174, 218486886, -52) ],
        [ tail |-> Bin(-18685571, 244594386, -108), scale |-> Bin(20610483, 82157559, -52) ],
        [ tail |-> Bin(-26317211, 63838997, -106), scale |-> Bin(20722396, 51620069, -52) ],
        [ tail |-> Bin(22672522, 120212589, -107), scale |-> Bin(20834916, 202519586, -52) ],
        [ tail |-> Bin(-19998215, 170420618, -106), scale |-> Bin(20948048, 78413852, -52) ],
        [ tail |-> Bin(-25852148, 135760219, -110), scale |-> Bin(21061794, 32976426, -52) ],
        [ tail |-> Bin(-29542838, 122264091, -108), scale |-> Bin(21176157, 156280983, -52) ],
        [ tail |-> Bin(20332246, 12758033, -111), scale |-> Bin(21291142, 6392109, -52) ],
        [ tail |-> Bin(23486611, 184968431, -106), scale |-> Bin(21406750, 220004439, -52) ],
        [ tail |-> Bin(32296477, 178324345, -109), scale |-> Bin(21522987, 96550096, -52) ],
        [ tail |-> Bin(20969699, 252645936, -106), scale |-> Bin(21639855, 14144478, -52) ],
        [ tail |-> Bin(23661803, 192589744, -108), scale |-> Bin(21757357, 87435815, -52) ],
        [ tail |-> Bin(20044766, 190111863, -106), scale |-> Bin(21875497, 167632141, -52) ],
        [ tail |-> Bin(-33112896, 7447438, -107), scale |-> Bin(21994279, 110963879, -52) ],
        [ tail |-> Bin(-25029837, 211002185, -107), scale |-> Bin(22113706, 47146562, -52) ],
        [ tail |-> Bin(-26078315, 219101279, -108), scale |-> Bin(22233781, 110972802, -52) ],
        [ tail |-> Bin(-23143534, 209411318, -107), scale |-> Bin(22354508, 173904399, -52) ],
        [ tail |-> Bin(20140113, 150853518, -106), scale |-> Bin(22475891, 112535514, -52) ],
        [ tail |-> Bin(28937074, 260741893, -108), scale |-> Bin(22597933, 77055997, -52) ],
        [ tail |-> Bin(17186334, 35410953, -106), scale |-> Bin(22720637, 222843945, -52) ],
        [ tail |-> Bin(21788757, 1689322, -112), scale |-> Bin(22844008, 173622967, -52) ],
        [ tail |-> Bin(21180002, 191152181, -106), scale |-> Bin(22968049, 95232328, -52) ],
        [ tail |-> Bin(-30295206, 26834591, -107), scale |-> Bin(23092763, 158784521, -52) ],
        [ tail |-> Bin(-29572179, 200232360, -107), scale |-> Bin(23218155, 3822981, -52) ],
        [ tail |-> Bin(-21313416, 153872814, -107), scale |-> Bin(23344227, 80528160, -52) ],
        [ tail |-> Bin(-20770263, 139876440, -106), scale |-> Bin(23470984, 39133733, -52) ],
        [ tail |-> Bin(24185512, 8264036, -110), scale |-> Bin(23598429, 72132979, -52) ],
        [ tail |-> Bin(-20659963, 257827368, -106), scale |-> Bin(23726566, 109001677, -52) ],
        [ tail |-> Bin(-27339480, 120895874, -109), scale |-> Bin(23855399, 84662975, -52) ],
        [ tail |-> Bin(-20348667, 141404654, -109), scale |-> Bin(23984931, 207952431, -52) ],
        [ tail |-> Bin(-17679317, 81823825, -107), scale |-> Bin(24115167, 156341380, -52) ],
        [ tail |-> Bin(-25294407, 240795343, -108), scale |-> Bin(24246110, 149708660, -52) ],
        [ tail |-> Bin(-24044716, 9141680, -107), scale |-> Bin(24377764, 145064308, -52) ],
        [ tail |-> Bin(-23171873, 240510602, -107), scale |-> Bin(24510133, 105015241, -52) ],
        [ tail |-> Bin(17419445, 235525331, -106), scale |-> Bin(24643220, 266231103, -52) ],
        [ tail |-> Bin(-28519883, 156083485, -108), scale |-> Bin(24777031, 65732999, -52) ],
        [ tail |-> Bin(21942229, 73908331, -106), scale |-> Bin(24911568, 19972402, -52) ],
        [ tail |-> Bin(22986266, 198601813, -109), scale |-> Bin(25046835, 114249314, -52) ],
        [ tail |-> Bin(-25828434, 263442242, -107), scale |-> Bin(25182837, 71178770, -52) ],
        [ tail |-> Bin(-20355951, 20657972, -106), scale |-> Bin(25319577, 156028435, -52) ],
        [ tail |-> Bin(-17164355, 169475870, -107), scale |-> Bin(25457060, 103008173, -52) ],
        [ tail |-> Bin(-21841165, 141711214, -106), scale |-> Bin(25595289, 189043437, -52) ],
        [ tail |-> Bin(17487477, 185502208, -106), scale |-> Bin(25734269, 160065177, -52) ],
        [ tail |-> Bin(31159036, 32565940, -107), scale |-> Bin(25874004, 36348123, -52) ],
        [ tail |-> Bin(-22767113, 214296575, -109), scale |-> Bin(26014497, 112542860, -52) ],
        [ tail |-> Bin(29321269, 166944580, -108), scale |-> Bin(26155753, 152401718, -52) ],
        [ tail |-> Bin(-19960314, 119422339, -106), scale |-> Bin(26297776, 194117574, -52) ],
        [ tail |-> Bin(-31103880, 191634985, -110), scale |-> Bin(26440571, 13485541, -52) ],
        [ tail |-> Bin(-29507479, 210811225, -109), scale |-> Bin(26584140, 197677583, -52) ],
        [ tail |-> Bin(-19149874, 49609130, -106), scale |-> Bin(26728489, 266227280, -52) ],
        [ tail |-> Bin(-22849229, 124161611, -107), scale |-> Bin(26873623, 13240250, -52) ],
        [ tail |-> Bin(18546626, 194104871, -108), scale |-> Bin(27019544, 44298384, -52) ],
        [ tail |-> Bin(31269726, 17462203, -109), scale |-> Bin(27166257, 165880611, -52) ],
        [ tail |-> Bin(-24924226, 39985763, -107), scale |-> Bin(27313767, 190702949, -52) ],
        [ tail |-> Bin(28428398, 65155541, -107), scale |-> Bin(27462078, 206187827, -52) ],
        [ tail |-> Bin(-18595101, 62700309, -106), scale |-> Bin(27611195, 37627229, -52) ],
        [ tail |-> Bin(17613593, 216936914, -106), scale |-> Bin(27761121, 53523288, -52) ],
        [ tail |-> Bin(21403718, 242440883, -107), scale |-> Bin(27911861, 91880895, -52) ],
        [ tail |-> Bin(-19791065, 126786996, -107), scale |-> Bin(28063419, 265548666, -52) ],
        [ tail |-> Bin(29468537, 46871431, -107), scale |-> Bin(28215801, 156947373, -52) ],
        [ tail |-> Bin(-17283316, 181524986, -106), scale |-> Bin(28369010, 160282214, -52) ],
        [ tail |-> Bin(-22822293, 115125946, -110), scale |-> Bin(28523051, 139400699, -52) ],
        [ tail |-> Bin(-17449187, 229045824, -106), scale |-> Bin(28677928, 233134394, -52) ],
        [ tail |-> Bin(-26046275, 145593140, -109), scale |-> Bin(28833647, 50028103, -52) ],
        [ tail |-> Bin(-18804262, 190351925, -106), scale |-> Bin(28990211, 10552906, -52) ],
        [ tail |-> Bin(22019440, 174054861, -108), scale |-> Bin(29147625, 4964818, -52) ],
        [ tail |-> Bin(-18603967, 177379500, -106), scale |-> Bin(29305893, 198647305, -52) ],
        [ tail |-> Bin(20376291, 11472051, -108), scale |-> Bin(29465021, 226841244, -52) ],
        [ tail |-> Bin(32387877, 211811732, -107), scale |-> Bin(29625013, 268423290, -52) ],
        [ tail |-> Bin(21891325, 17389996, -107), scale |-> Bin(29785874, 240636235, -52) ],
        [ tail |-> Bin(20765427, 139336295, -109), scale |-> Bin(29947609, 67561397, -52) ],
        [ tail |-> Bin(24556230, 210901352, -109), scale |-> Bin(30110221, 217026665, -52) ],
        [ tail |-> Bin(-17342856, 63747538, -107), scale |-> Bin(30273717, 90031098, -52) ],
        [ tail |-> Bin(-33215955, 268434031, -107), scale |-> Bin(30438100, 168266108, -52) ],
        [ tail |-> Bin(-16833251, 141928777, -106), scale |-> Bin(30603376, 135105010, -52) ],
        [ tail |-> Bin(21641306, 104662951, -108), scale |-> Bin(30769549, 217818247, -52) ],
        [ tail |-> Bin(-19470818, 4203023, -107), scale |-> Bin(30936625, 113869720, -52) ],
        [ tail |-> Bin(31827213, 96572076, -107), scale |-> Bin(31104608, 64696965, -52) ],
        [ tail |-> Bin(21210522, 201419595, -107), scale |-> Bin(31273503, 50443360, -52) ],
        [ tail |-> Bin(-19747344, 129252895, -107), scale |-> Bin(31443315, 58432351, -52) ],
        [ tail |-> Bin(-26389395, 189205961, -107), scale |-> Bin(31614049, 83206441, -52) ],
        [ tail |-> Bin(21717062, 3836115, -108), scale |-> Bin(31785710, 126566390, -52) ],
        [ tail |-> Bin(20733637, 27095665, -107), scale |-> Bin(31958303, 197610627, -52) ],
        [ tail |-> Bin(-33517864, 265523696, -107), scale |-> Bin(32131834, 44339418, -52) ],
        [ tail |-> Bin(-31123854, 35878013, -107), scale |-> Bin(32306306, 227436529, -52) ],
        [ tail |-> Bin(32259012, 27926536, -107), scale |-> Bin(32481726, 241261095, -52) ],
        [ tail |-> Bin(21150028, 61467442, -107), scale |-> Bin(32658099, 124500631, -52) ],
        [ tail |-> Bin(27675283, 30508526, -107), scale |-> Bin(32835429, 191776064, -52) ],
        [ tail |-> Bin(-31685550, 71033837, -107), scale |-> Bin(33013722, 228376084, -52) ],
        [ tail |-> Bin(24679348, 227659165, -108), scale |-> Bin(33192984, 27168984, -52) ],
        [ tail |-> Bin(19946516, 23121033, -110), scale |-> Bin(33373218, 193950193, -52) ]
      >> ]

\* a x b + c as the function is compiled
MulAdd[fast_fma \in BOOLEAN, a \in Float, b \in Float, c \in Float] ==
    IF fast_fma THEN Fused[a, b, c] ELSE Added[Multiplied[a, b], c]

\* the lowest z that the logarithm takes, 0x3fe6955500000000 in bits: x is
\* 2^k z with OFF <= z < 2 OFF
OFF == Bin(23680336, 0, -53)

\* the values the function holds on its way, by the names the C source gives
\* them; hi and lo are those of log_inline, loghi and loglo what it returns,
\* shifted is kd + Shift and r2 is r x r
Names ==
    { "y", "z", "kd", "invc", "logc", "logctail", "zhi", "rhi", "rlo", "r", "t1",
      "t2", "lo1", "lo2", "ar", "ar2", "ar3", "arhi", "arhi2", "hi", "lo3", "lo4",
      "p", "lo", "loghi", "loglo", "yhi", "ylo", "lhi", "llo", "ehi", "elo",
      "shifted", "tail", "scale", "r2", "tmp" }

Held == [ Names -> Float ]

\* a with the low 27 bits of its mantissa cleared
Masked[a \in Float] == [ a EXCEPT !.lo = @ - (@ % Two(27)) ]

\* z > 0 with its mantissa brought to the nearest multiple of 2^32
HighHalf[z \in Float] == Rounded[((z.hi + 8) \div 16) * 16, 0, z.e]

\* log_inline: log x = k log 2 + log c + log(1 + r) with r = z / c - 1, which
\* z x invc - 1 gives without an error

\* without fused multiply-add z is split so that rhi and rlo have no error
log_zhi[fast_fma \in BOOLEAN, v \in Held] ==
    IF fast_fma THEN v ELSE [ v EXCEPT !.zhi = HighHalf[v.z] ]

log_rhi[fast_fma \in BOOLEAN, v \in Held] ==
    IF fast_fma THEN v
    ELSE [ v EXCEPT !.rhi = Minus(Times(v.zhi, v.invc), One),
                    !.rlo = Times(Minus(v.z, v.zhi), v.invc) ]

log_r[fast_fma \in BOOLEAN, v \in Held] ==
    [ v EXCEPT !.r = IF fast_fma THEN Fused[v.z, v.invc, Neg(One)]
                     ELSE Plus(v.rhi, v.rlo),
               !.t1 = MulAdd[fast_fma, v.kd, pow_log_data.ln2hi, v.logc],
               !.lo1 = MulAdd[fast_fma, v.kd, pow_log_data.ln2lo, v.logctail] ]

log_t2[fast_fma \in BOOLEAN, v \in Held] ==
    [ v EXCEPT !.t2 = Plus(v.t1, v.r),
               !.ar = Times(pow_log_data.poly[1], v.r),
               !.arhi = Times(pow_log_data.poly[1], v.rhi) ]

log_lo2[fast_fma \in BOOLEAN, v \in Held] ==
    [ v EXCEPT !.lo2 = Plus(Minus(v.t1, v.t2), v.r),
               !.ar2 = Times(v.r, v.ar),
               !.arhi2 = Times(v.rhi, v.arhi) ]

\* hi = t2 + ar2 with lo3 the error of ar2, or hi = t2 + arhi2 with lo3 what
\* arhi2 leaves out of it; p is the polynomial
\* A[1] + r A[2] + ar2 (A[3] + r A[4] + ar2 (A[5] + r A[6]))
log_hi[fast_fma \in BOOLEAN, v \in Held] ==
    [ v EXCEPT !.ar3 = Times(v.r, v.ar2),
               !.hi = Plus(v.t2, IF fast_fma THEN v.ar2 ELSE v.arhi2),
               !.lo3 = IF fast_fma THEN Fused[v.ar, v.r, Neg(v.ar2)]
                       ELSE Times(v.rlo, Plus(v.ar, v.arhi)),
               !.p = MulAdd[fast_fma, v.ar2,
                            MulAdd[fast_fma, v.ar2,
                                   MulAdd[fast_fma, v.r, pow_log_data.poly[7],
                                          pow_log_data.poly[6]],
                                   MulAdd[fast_fma, v.r, pow_log_data.poly[5],
                                          pow_log_data.poly[4]]],
                            MulAdd[fast_fma, v.r, pow_log_data.poly[3],
                                   pow_log_data.poly[2]]] ]

log_lo4[fast_fma \in BOOLEAN, v \in Held] ==
    [ v EXCEPT !.lo4 = Plus(Minus(v.t2, v.hi), IF fast_fma THEN v.ar2 ELSE v.arhi2) ]

\* lo = lo1 + lo2 + lo3 + lo4 + ar3 x p
log_lo[fast_fma \in BOOLEAN, v \in Held] ==
    [ v EXCEPT !.lo = MulAdd[fast_fma, v.ar3, v.p,
                             Plus(Plus(Plus(v.lo1, v.lo2), v.lo3), v.lo4)] ]

log_y[fast_fma \in BOOLEAN, v \in Held] == [ v EXCEPT !.loghi = Plus(v.hi, v.lo) ]

log_tail[fast_fma \in BOOLEAN, v \in Held] ==
    [ v EXCEPT !.loglo = Plus(Minus(v.hi, v.loghi), v.lo) ]

log_inline[fast_fma \in BOOLEAN, v \in Held] ==
    log_tail[fast_fma, log_y[fast_fma, log_lo[fast_fma, log_lo4[fast_fma,
        log_hi[fast_fma, log_lo2[fast_fma, log_t2[fast_fma, log_r[fast_fma,
            log_rhi[fast_fma, log_zhi[fast_fma, v]]]]]]]]]]

\* ehi + elo = y x (loghi + loglo): with the error of the product y x loghi,
\* or with y and loghi split so that yhi x lhi has none
pow_split[fast_fma \in BOOLEAN, v \in Held] ==
    IF fast_fma THEN v
    ELSE [ v EXCEPT !.yhi = Masked[v.y], !.lhi = Masked[v.loghi] ]

pow_ehi[fast_fma \in BOOLEAN, v \in Held] ==
    IF fast_fma THEN [ v EXCEPT !.ehi = Times(v.y, v.loghi) ]
    ELSE [ v EXCEPT !.ehi = Times(v.yhi, v.lhi),
                    !.ylo = Minus(v.y, v.yhi),
                    !.llo = Plus(Minus(v.loghi, v.lhi), v.loglo) ]

pow_elo[fast_fma \in BOOLEAN, v \in Held] ==
    [ v EXCEPT !.elo = IF fast_fma
                       THEN Fused[v.y, v.loglo, Fused[v.y, v.loghi, Neg(v.ehi)]]
                       ELSE Plus(Times(v.ylo, v.lhi), Times(v.y, v.llo)) ]

\* exp_inline: exp x = 2^(k/128) exp r with k the whole number nearest to
\* 128 x / log 2, which adding Shift = 1.5 x 2^52 leaves in the low bits

exp_shifted[fast_fma \in BOOLEAN, v \in Held] ==
    [ v EXCEPT !.shifted = MulAdd[fast_fma, exp_data.invln2N, v.ehi, exp_data.shift] ]

\* the whole number k that kd + Shift holds
Whole[shifted \in Float] == (shifted.hi - 3 * Two(23)) * Half + shifted.lo

\* 2^(k/128): the entry of k % 128 times 2^(k \div 128)
Scale[k \in Int] ==
    [ exp_data.tab[(k % 128) + 1].scale EXCEPT !.e = @ + (k \div 128) ]

exp_kd[fast_fma \in BOOLEAN, v \in Held] ==
    [ v EXCEPT !.kd = Minus(v.shifted, exp_data.shift),
               !.tail = exp_data.tab[(Whole[v.shifted] % 128) + 1].tail,
               !.scale = Scale[Whole[v.shifted]] ]

\* r = x + kd x NegLn2hiN + kd x NegLn2loN + xtail
exp_r[fast_fma \in BOOLEAN, v \in Held] ==
    [ v EXCEPT !.r = Plus(MulAdd[fast_fma, v.kd, exp_data.negln2loN,
                                 MulAdd[fast_fma, v.kd, exp_data.negln2hiN, v.ehi]],
                          v.elo) ]

exp_r2[fast_fma \in BOOLEAN, v \in Held] == [ v EXCEPT !.r2 = Times(v.r, v.r) ]

\* tmp = tail + r + r2 x (C2 + r x C3) + r2 x r2 x (C4 + r x C5)
exp_tmp[fast_fma \in BOOLEAN, v \in Held] ==
    [ v EXCEPT !.tmp =
        MulAdd[fast_fma,
               MulAdd[fast_fma, v.r, exp_data.poly[4], exp_data.poly[3]],
               Times(v.r2, v.r2),
               MulAdd[fast_fma,
                      MulAdd[fast_fma, v.r, exp_data.poly[2], exp_data.poly[1]],
                      v.r2, Plus(v.tail, v.r)]] ]

\* scale + scale x tmp; an x below 2^-54 in size gives 1
exp_inline[fast_fma \in BOOLEAN, v \in Held] ==
    IF v.ehi.hi = 0 \/ v.ehi.e < -106 THEN One
    ELSE MulAdd[fast_fma,
                exp_tmp[fast_fma, exp_r2[fast_fma, exp_r[fast_fma,
                    exp_kd[fast_fma, exp_shifted[fast_fma, v]]]]].tmp,
                Scale[Whole[exp_shifted[fast_fma, v].shifted]],
                Scale[Whole[exp_shifted[fast_fma, v].shifted]]]

\* what log_inline starts from: x = 2^k z, and the entry of the table for
\* the interval of z, which the seven bits of z - OFF below the exponent number
Parted[x \in Float, y \in Float, top \in BOOLEAN, i \in Int] ==
    [ n \in Names |->
        IF n = "y" THEN y
        ELSE IF n = "z" THEN [ x EXCEPT !.e = IF top THEN -53 ELSE -52 ]
        ELSE IF n = "kd" THEN N(x.e + (IF top THEN 53 ELSE 52))
        ELSE IF n = "invc" THEN pow_log_data.tab[i].invc
        ELSE IF n = "logc" THEN pow_log_data.tab[i].logc
        ELSE IF n = "logctail" THEN pow_log_data.tab[i].logctail
        ELSE Zero ]

\* the C library's pow(x, y) for x > 0 and a power that is a float with an
\* exponent in range
pow(x, y, fast_fma) ==
    exp_inline[fast_fma, pow_elo[fast_fma, pow_ehi[fast_fma, pow_split[fast_fma,
        log_inline[fast_fma,
            Parted[x, y, x.hi >= OFF.hi,
                   (((x.hi - OFF.hi) % Two(24)) \div Two(17)) + 1]]]]]]

\* iv ** iw of two floats, for a whole even iw > 0: the interpreter answers
\* for 0 and 1 itself and hands the rest to pow, without the sign
float_pow(iv, iw, fast_fma) ==
    IF iv = Zero THEN Zero
    ELSE IF FAbs(iv) = One THEN One
    ELSE pow(FAbs(iv), iw, fast_fma)

---------------------------------------------------------------------------
(* Thousandths: the draws of the random generator *)

\* three decimal places
S == 10 * 10 * 10

---------------------------------------------------------------------------
(* Configuration: abm/config.py defaults, with the options a run may set *)

DefaultConfig ==
    [ seed |-> 0,
      firm_behavior |->
        [ price_markup |-> R(150), markup_adjustment_speed |-> R(100),
          inventory_target_ratio |-> R(200),
          capacity_utilization_target |-> R(850),
          satisficing_aspiration_rate |-> R(500), satisficing_window |-> 4,
          markup_noise_std |-> Zero ],
      exit_threshold |-> R(-500),
      household_behavior |->
        [ job_search_intensity |-> R(300), consumption_smoothing |-> R(700),
          expectation_adaptation_speed |-> R(300) ],
      banks |-> [ capital_requirement |-> R(100), risk_weight |-> One ],
      bank_behavior |->
        [ base_interest_markup |-> R(20), risk_premium_sensitivity |-> R(50),
          lending_threshold |-> R(300), capital_buffer |-> R(20),
          credit_score_noise_std |-> Zero ],
      taylor_rule |->
        [ active |-> TRUE, inflation_target |-> R(20),
          inflation_coefficient |-> R(1500),
          output_gap_coefficient |-> R(500),
          interest_rate_smoothing |-> R(800), lower_bound |-> R(1) ],
      fiscal_rule |->
        [ active |-> TRUE, spending_gdp_ratio |-> R(400),
          tax_rate_corporate |-> R(190), tax_rate_income_base |-> R(200),
          deficit_target |-> R(30), deficit_adjustment_speed |-> R(100) ],
      transfers |-> [ unemployment_benefit_ratio |-> R(400) ],
      labor_market |->
        [ wage_stickiness |-> R(800), matching_efficiency |-> R(300),
          separation_rate |-> R(50) ],
      credit_market |-> [ rationing |-> TRUE, default_rate_base |-> R(10) ] ]

\* A run's configuration: the defaults with the options below set by the
\* caller, rates written in thousandths
ConfigOf(seed, sep, inv, rationing, search) ==
    [ DefaultConfig EXCEPT
        !.seed = seed,
        !.labor_market.separation_rate = R(sep),
        !.labor_market.matching_efficiency = R(search[2]),
        !.household_behavior.job_search_intensity = R(search[1]),
        !.firm_behavior.inventory_target_ratio = R(inv),
        !.credit_market.rationing = rationing ]

\* configurations that switch on the noisy markup and credit-score rules
NoisyConfigs ==
    { [ ConfigOf(seed, 50, 200, TRUE, <<300, 300>>) EXCEPT
          !.firm_behavior.markup_noise_std = R(50),
          !.bank_behavior.credit_score_noise_std = R(200) ] : seed \in 0..1 }

\* simulation.seed left empty (seed: null in the configuration file, None in
\* SimulationConfig): np.random.default_rng(None) then draws its stream from
\* the entropy of the operating system; written -1, which no seed is
NoSeed == -1

\* the defaults run without a seed
UnseededConfig == [ DefaultConfig EXCEPT !.seed = NoSeed ]

Configs ==
    { ConfigOf(seed, sep, inv, r, search) :
        seed \in 0..MaxSeed, sep \in {50, 500}, inv \in {200, 1000},
        r \in BOOLEAN, search \in { <<300, 300>>, <<1000, 900>> } }
      \cup NoisyConfigs \cup { UnseededConfig }

---------------------------------------------------------------------------
(* The seeded random generator *)

\* k-th uniform draw in [0, 1) of the stream of a seed, in thousandths
Uniform(seed, k) ==
    ((seed + 1) * 7919 + k * 6151 + (seed + 3) * k * k * 37) % S

\* np.random.default_rng() without the seed: fresh entropy on every construction
UnseededRng(seed, entropy) == [ seed |-> entropy, pos |-> 0 ]

\* np.random.default_rng(seed): the stream of the seed, or of the entropy the
\* operating system supplies when there is no seed; no draw made yet
NewRng(seed, entropy) ==
    [ seed |-> IF seed = NoSeed THEN entropy ELSE seed, pos |-> 0 ]

\* the value of the n-th draw still to come, in thousandths
Peek(rng, n) == Uniform(rng.seed, rng.pos + n)
Advance(rng, n) == [ rng EXCEPT !.pos = @ + n ]

\* rng.integers(low, high): low <= value < high
IntegersDraw(u, low, high) == low + (u * (high - low)) \div S
\* a draw of a continuous distribution: the quantile of u in a table of its
\* values, which are written in thousandths
Quantile(table, u) == R(table[1 + (u * Len(table)) \div S])

WageRateValues == <<600, 900, 2500>>
TurnoverValues == <<500, 3000, 10000>>
CapitalValues == <<200, 1500, 5000>>
CashValues == <<400, 1000, 2500>>
IncomeValues == <<2400, 3600, 4800>>
ParetoValues == <<0, 1000, 3000>>
MpcValues == <<50, 800, 1200>>
BankCapitalValues == <<1000, 100000>>

---------------------------------------------------------------------------
(* Agents: constructors *)

NoEmployer == 0

NewFirm(id, employees, wage_bill, turnover, capital, cash, debt, equity, behavior) ==
    [ agent_id |-> id, employees |-> employees, wage_bill |-> wage_bill,
      turnover |-> turnover, capital |-> capital, cash |-> cash, debt |-> debt,
      equity |-> equity, price |-> One, output |-> turnover, inventory |-> Zero,
      profit |-> Zero, markup |-> behavior.price_markup, vacancies |-> Zero,
      wage_rate |-> IF employees > 0 THEN Over(wage_bill, N(employees)) ELSE Zero,
      desired_production |-> turnover, bankrupt |-> FALSE,
      profit_rate_history |-> <<>> ]

\* Firm(...) with the money arguments written in thousandths
FirmOf(id, employees, wage_bill, turnover, capital, cash, debt, equity, behavior) ==
    NewFirm(id, employees, R(wage_bill), R(turnover), R(capital), R(cash),
            R(debt), R(equity), behavior)

NewHousehold(id, income, wealth, mpc) ==
    [ agent_id |-> id, income |-> income, wealth |-> wealth, mpc |-> mpc,
      employed |-> FALSE, employer_id |-> NoEmployer, wage |-> Zero,
      consumption |-> Zero, savings |-> Zero, transfer_income |-> Zero ]

NewBank(id, capital, reserves) ==
    [ agent_id |-> id, capital |-> capital, reserves |-> reserves,
      loans |-> Zero, deposits |-> Zero, non_performing_loans |-> Zero,
      interest_rate |-> R(50), profit |-> Zero, interest_income |-> Zero,
      interest_expense |-> Zero ]

NewCentralBank(taylor) ==
    [ policy_rate |-> taylor.inflation_target,
      inflation_target |-> taylor.inflation_target,
      current_inflation |-> taylor.inflation_target,
      output_gap |-> Zero, reserves_supplied |-> Zero,
      previous_rate |-> taylor.inflation_target ]

NewGovernment ==
    [ tax_revenue |-> Zero, expenditure |-> Zero, deficit |-> Zero,
      debt |-> Zero, gdp_estimate |-> Zero, transfer_spending |-> Zero ]

NewGoodsMarket ==
    [ total_sales |-> Zero, average_price |-> One, excess_demand |-> Zero,
      inflation |-> Zero, previous_price |-> One ]

NewLaborMarket ==
    [ total_employed |-> 0, total_unemployed |-> 0, unemployment_rate |-> Zero,
      average_wage |-> Zero, total_matches |-> 0, total_separations |-> 0 ]

NewCreditMarket ==
    [ total_lending |-> Zero, total_applications |-> 0, total_approvals |-> 0,
      total_rejections |-> 0, average_rate |-> Zero, total_defaults |-> 0 ]

---------------------------------------------------------------------------
(* Household employment interface *)

become_employed(hh, employer_id, wage) ==
    [ hh EXCEPT !.employed = TRUE, !.employer_id = employer_id, !.wage = wage ]

\* a separation that clears the flag and the wage but keeps the employer id
become_unemployed_keeping_employer(hh) ==
    [ hh EXCEPT !.employed = FALSE, !.wage = Zero ]

become_unemployed(hh) ==
    [ hh EXCEPT !.employed = FALSE, !.employer_id = NoEmployer, !.wage = Zero ]

---------------------------------------------------------------------------
(* Simulation: construction and initial population *)

\* firm i is built from draws 5(i-1)+1 .. 5i of the generator
InitialFirm(cfg, rng, i) ==
    LET base == 5 * (i - 1)
        employees == IntegersDraw(Peek(rng, base + 1), 1, EmployeesHigh)
        wage_rate == Quantile(WageRateValues, Peek(rng, base + 2))
        turnover == Quantile(TurnoverValues, Peek(rng, base + 3))
        capital == Quantile(CapitalValues, Peek(rng, base + 4))
        cash == Quantile(CashValues, Peek(rng, base + 5))
    IN NewFirm(i, employees, Times(N(employees), wage_rate), turnover, capital,
               cash, Zero, Plus(capital, cash), cfg.firm_behavior)

\* household i is built from the 3 draws that follow the firms' draws
InitialHousehold(cfg, rng, i) ==
    LET base == 5 * NumFirms + 3 * (i - 1)
        income == Quantile(IncomeValues, Peek(rng, base + 1))
        wealth == Times(Quantile(ParetoValues, Peek(rng, base + 2)), income)
        mpc == FMax(R(100), FMin(R(990), Quantile(MpcValues, Peek(rng, base + 3))))
    IN NewHousehold(i, Over(income, N(4)), wealth, mpc)

InitialBank(cfg, rng, i) ==
    LET base == 5 * NumFirms + 3 * NumHouseholds + (i - 1)
        capital == Quantile(BankCapitalValues, Peek(rng, base + 1))
    IN NewBank(i, capital, Times(capital, R(100)))

\* households are handed to the firms in order, firm.employees each,
\* until the households run out
initial_employment(firms, households) ==
    LET RECURSIVE Before(_)
        Before(i) == IF i = 0 THEN 0 ELSE firms[i].employees + Before(i - 1)
        Employer(j) ==
            LET c == { i \in 1..Len(firms) : Before(i - 1) < j /\ j <= Before(i) }
            IN IF c = {} THEN NoEmployer ELSE CHOOSE i \in c : TRUE
    IN [ j \in 1..Len(households) |->
           IF Employer(j) = NoEmployer THEN households[j]
           ELSE become_employed(households[j], Employer(j),
                                firms[Employer(j)].wage_rate) ]

\* Simulation(cfg): the generator, the central bank, the government and the
\* three markets; no agents yet, and no market has been handed any
NewSimulation(cfg, entropy) ==
    [ config |-> cfg,
      rng |-> NewRng(cfg.seed, entropy),
      firms |-> <<>>,
      households |-> <<>>,
      banks |-> <<>>,
      central_bank |-> NewCentralBank(cfg.taylor_rule),
      government |-> NewGovernment,
      goods_market |-> NewGoodsMarket,
      labor_market |-> NewLaborMarket,
      credit_market |-> NewCreditMarket,
      wired |-> {},
      current_period |-> 0,
      gdp |-> Zero,
      records |-> <<>> ]

\* CreditMarket.set_agents(firms, banks) has two parameters: a call with
\* another number of arguments raises TypeError before anything is stored
credit_set_agents_raises(arguments) == Len(arguments) # 2

\* credit_market.set_agents(sim.firms, sim.banks): the market works on the
\* lists of the Simulation from now on
credit_set_agents(s) == [ s EXCEPT !.wired = @ \cup { "credit_market" } ]

\* the arguments of the call at the end of initialize_agents
WiringArguments == << "firms", "banks", "rng" >>

\* the last call of initialize_agents hands the credit market the firms, the
\* banks and the generator, and raises
initialize_agents_raises == credit_set_agents_raises(WiringArguments)

\* initialize_agents on a Simulation without agents: the population is drawn
\* from the generator (firms, then households, then banks), households are
\* assigned to firms, the goods market is handed the firms, the households
\* and the government, the labour market the firms, the households and the
\* generator; the result is the Simulation as the call leaves it, by the
\* exception of its last line or by returning
initialize_agents(s) ==
    LET firms == [ i \in 1..NumFirms |-> InitialFirm(s.config, s.rng, i) ]
        hhs == [ i \in 1..NumHouseholds |-> InitialHousehold(s.config, s.rng, i) ]
        banks == [ i \in 1..NumBanks |-> InitialBank(s.config, s.rng, i) ]
        populated ==
            [ s EXCEPT
                !.rng = Advance(@, 5 * NumFirms + 3 * NumHouseholds + NumBanks),
                !.firms = firms,
                !.households = initial_employment(firms, hhs),
                !.banks = banks,
                !.wired = @ \cup { "goods_market", "labor_market" } ]
    IN IF initialize_agents_raises THEN populated
       ELSE credit_set_agents(populated)

---------------------------------------------------------------------------
(* Firm *)

plan_production(f, behavior) ==
    LET expected_sales == Over(f.turnover, FMax(f.price, Eps))
        desired == Minus(Plus(expected_sales,
                              Times(behavior.inventory_target_ratio, expected_sales)),
                         f.inventory)
    IN [ f EXCEPT !.desired_production = FMax(desired, Zero) ]

set_price(f) ==
    IF Positive(f.output)
    THEN LET unit_cost == Over(f.wage_bill, FMax(f.output, Eps))
         IN [ f EXCEPT !.price = Times(unit_cost, Plus(One, f.markup)) ]
    ELSE f

determine_labour_demand(f) ==
    LET labour_productivity ==
            IF f.employees > 0 THEN Over(f.output, N(f.employees)) ELSE One
        desired_employees ==
            Trunc(Over(f.desired_production, FMax(labour_productivity, Eps)))
    IN [ f EXCEPT !.vacancies =
           FMax(Minus(desired_employees, N(f.employees)), Zero) ]

\* production at a productivity of one unit per employee
produce_at_unit_productivity(f, behavior) ==
    LET capacity == Times(f.capital, behavior.capacity_utilization_target)
        labour_output == N(f.employees)
        output == FMin(f.desired_production, FMin(labour_output, capacity))
    IN [ f EXCEPT !.output = output, !.inventory = Plus(@, output) ]

produce(f, behavior) ==
    LET labour_productivity ==
            IF f.employees > 0
            THEN Over(f.output, N(Max(f.employees, 1))) ELSE One
        capacity == Times(f.capital, behavior.capacity_utilization_target)
        labour_output == Times(N(f.employees), labour_productivity)
        output == FMin(f.desired_production, FMin(labour_output, capacity))
    IN [ f EXCEPT !.output = output, !.inventory = Plus(@, output) ]

\* the threshold of the bankruptcy check
BankruptcyThreshold(cfg) ==
    Times(cfg.firm_behavior.capacity_utilization_target, N(-1))

\* a financial update that books the expected sales whatever the stock
update_financials_selling_unstocked(f, cfg) ==
    LET sales_quantity == Over(f.turnover, FMax(f.price, Eps))
        revenue == Times(sales_quantity, f.price)
        wage_bill == Times(N(f.employees), f.wage_rate)
        profit == Minus(revenue, wage_bill)
        equity == Plus(f.equity, profit)
        bankrupt ==
            IF Negative(equity) /\ Positive(f.capital)
            THEN Less(Over(equity, f.capital), BankruptcyThreshold(cfg))
            ELSE FALSE
    IN [ f EXCEPT !.inventory = Minus(@, sales_quantity),
                  !.turnover = revenue,
                  !.wage_bill = wage_bill,
                  !.profit = profit,
                  !.cash = Plus(@, profit),
                  !.equity = equity,
                  !.bankrupt = IF bankrupt THEN TRUE ELSE @ ]

update_financials(f, cfg) ==
    LET sales_quantity ==
            FMin(f.inventory, Over(f.turnover, FMax(f.price, Eps)))
        revenue == Times(sales_quantity, f.price)
        wage_bill == Times(N(f.employees), f.wage_rate)
        profit == Minus(revenue, wage_bill)
        equity == Plus(f.equity, profit)
        bankrupt ==
            IF Negative(equity) /\ Positive(f.capital)
            THEN Less(Over(equity, f.capital), BankruptcyThreshold(cfg))
            ELSE FALSE
    IN [ f EXCEPT !.inventory = Minus(@, sales_quantity),
                  !.turnover = revenue,
                  !.wage_bill = wage_bill,
                  !.profit = profit,
                  !.cash = Plus(@, profit),
                  !.equity = equity,
                  !.bankrupt = IF bankrupt THEN TRUE ELSE @ ]

\* what Firm.step does to a firm that is not bankrupt
FirmStepActive(f, cfg) ==
    update_financials(
        produce(
            determine_labour_demand(
                set_price(plan_production(f, cfg.firm_behavior))),
            cfg.firm_behavior),
        cfg)

\* a step that lacks the early return for bankrupt firms
FirmStepUnguarded(f, cfg) == FirmStepActive(f, cfg)

FirmStep(f, cfg) == IF f.bankrupt THEN f ELSE FirmStepActive(f, cfg)

\* the markup after an adjustment
FlooredMarkup(markup, adjustment) ==
    IF Positive(adjustment) \/ Less(R(10), markup)
    THEN FMax(R(10), Plus(markup, adjustment))
    ELSE markup

\* a satisficed firm that still responds with half the adjustment
HalvedAdjustment(full) == Times(full, R(500))

\* the adjustment of a satisficed firm: one tenth of the full adjustment
SatisficedAdjustment(full) == Times(full, R(100))

\* the satisficing test on the history that already holds the current rate
Satisficed(history, behavior) ==
    /\ Len(history) >= 2
    /\ LessEq(behavior.satisficing_aspiration_rate,
              Over(Sum(history), N(Len(history))))

\* noise: the Gaussian draw rng.normal(0, noise_std), 0 when no rng is passed
\* or markup_noise_std is 0
\* a markup adaptation that never drops an entry of the history
adapt_markup_keeping_history(f, excess_demand, noise, behavior) ==
    LET profit_rate == Over(f.profit, FMax(FAbs(f.turnover), Eps))
        history == Append(f.profit_rate_history, profit_rate)
        full == Times(behavior.markup_adjustment_speed, excess_demand)
        adjustment == Plus(IF Satisficed(history, behavior)
                           THEN SatisficedAdjustment(full) ELSE full, noise)
    IN [ f EXCEPT !.profit_rate_history = history,
                  !.markup = FlooredMarkup(f.markup, adjustment) ]

\* adapt_markup is left by ZeroDivisionError at the average of an empty
\* history: the rate appended was popped again, which a window below 1 does
\* to a firm without history
adapt_markup_raises(f, behavior) ==
    f.profit_rate_history = <<>> /\ behavior.satisficing_window < 1

\* the firm after adapt_markup; when adapt_markup_raises holds this is the
\* firm the exception leaves behind: history emptied, markup untouched
adapt_markup(f, excess_demand, noise, behavior) ==
    LET profit_rate == Over(f.profit, FMax(FAbs(f.turnover), Eps))
        appended == Append(f.profit_rate_history, profit_rate)
        history == IF Len(appended) > behavior.satisficing_window
                   THEN Tail(appended) ELSE appended
        full == Times(behavior.markup_adjustment_speed, excess_demand)
        adjustment == Plus(IF Satisficed(history, behavior)
                           THEN SatisficedAdjustment(full) ELSE full, noise)
    IN IF history = <<>>
       THEN [ f EXCEPT !.profit_rate_history = history ]
       ELSE [ f EXCEPT !.profit_rate_history = history,
                       !.markup = FlooredMarkup(f.markup, adjustment) ]

\* a hire that leaves the posted vacancies as they are
hire_keeping_vacancies(f, count, wage) ==
    [ f EXCEPT !.employees = @ + count,
               !.wage_rate = wage,
               !.wage_bill = Times(N(f.employees + count), wage) ]

hire(f, count, wage) ==
    [ f EXCEPT !.employees = @ + count,
               !.wage_rate = wage,
               !.wage_bill = Times(N(f.employees + count), wage),
               !.vacancies = FMax(Minus(@, N(count)), Zero) ]

fire(f, count) ==
    [ f EXCEPT !.employees = Max(@ - count, 0),
               !.wage_bill = Times(N(Max(f.employees - count, 0)), f.wage_rate) ]

---------------------------------------------------------------------------
(* Household *)

receive_income(hh) ==
    LET wage_income == IF hh.employed THEN hh.wage ELSE Zero
    IN [ hh EXCEPT !.income = Plus(wage_income, hh.transfer_income) ]

consume(hh, behavior) ==
    LET c_income == Times(hh.mpc, hh.income)
        c_wealth == Times(Times(Minus(One, behavior.consumption_smoothing), R(40)),
                          hh.wealth)
        desired == Plus(c_income, c_wealth)
    IN [ hh EXCEPT !.consumption =
           FMax(Zero, FMin(desired, Plus(hh.income, hh.wealth))) ]

save(hh) ==
    [ hh EXCEPT !.savings = Minus(hh.income, hh.consumption),
                !.wealth = Plus(@, Minus(hh.income, hh.consumption)) ]

HouseholdStep(hh, cfg) ==
    save(consume(receive_income(hh), cfg.household_behavior))

\* u: the uniform draw the call makes when the household is unemployed,
\* in thousandths
is_searching(hh, u, behavior) ==
    IF hh.employed THEN FALSE ELSE Less(R(u), behavior.job_search_intensity)

---------------------------------------------------------------------------
(* Bank *)

set_lending_rate(b, policy_rate, behavior) ==
    LET npl_ratio == IF Positive(b.loans) THEN Over(b.non_performing_loans, b.loans)
                     ELSE Zero
    IN [ b EXCEPT !.interest_rate =
           Plus(Plus(policy_rate, behavior.base_interest_markup),
                Times(behavior.risk_premium_sensitivity, npl_ratio)) ]

set_policy_rate(b, rate, behavior) == set_lending_rate(b, rate, behavior)

calculate_income(b) ==
    [ b EXCEPT !.interest_income = Times(b.interest_rate, b.loans),
               !.interest_expense =
                   Times(FMax(Minus(b.interest_rate, R(20)), Zero), b.deposits) ]

update_capital(b) ==
    LET provisions == Times(b.non_performing_loans, R(500))
        profit == Minus(Minus(b.interest_income, b.interest_expense), provisions)
    IN [ b EXCEPT !.profit = profit, !.capital = Plus(@, profit) ]

BankStep(b, cfg) ==
    update_capital(calculate_income(set_lending_rate(b, R(50), cfg.bank_behavior)))

capital_ratio(b, cfg) ==
    LET risk_weighted == Times(b.loans, cfg.banks.risk_weight)
    IN IF ~Positive(risk_weighted) THEN One ELSE Over(b.capital, risk_weighted)

meets_capital_requirement(b, cfg) ==
    LessEq(Plus(cfg.banks.capital_requirement, cfg.bank_behavior.capital_buffer),
           capital_ratio(b, cfg))

\* borrower_revenue / max(amount * interest_rate, 1e-9)
debt_service_coverage(b, amount, borrower_revenue) ==
    Over(borrower_revenue, FMax(Times(amount, b.interest_rate), Eps))

\* a deterministic rule that asks for no collateral
evaluate_loan_without_collateral(b, amount, borrower_equity, borrower_revenue, cfg) ==
    IF ~meets_capital_requirement(b, cfg) THEN FALSE
    ELSE IF ~Positive(borrower_revenue) THEN FALSE
    ELSE LessEq(cfg.bank_behavior.lending_threshold,
                debt_service_coverage(b, amount, borrower_revenue))

\* the deterministic rule: the credit market passes no rng
evaluate_loan(b, amount, borrower_equity, borrower_revenue, cfg) ==
    IF ~meets_capital_requirement(b, cfg) THEN FALSE
    ELSE IF ~Positive(borrower_revenue) THEN FALSE
    ELSE IF Less(borrower_equity, Times(amount, R(500))) THEN FALSE
    ELSE LessEq(cfg.bank_behavior.lending_threshold,
                debt_service_coverage(b, amount, borrower_revenue))

\* a composite score that adds the two normalised scores with weight one
NoisyScoreUnweighted(b, amount, borrower_equity, borrower_revenue, noise, cfg) ==
    LET collateral_score ==
            Over(borrower_equity, FMax(Times(amount, R(500)), Eps))
        coverage_score ==
            Over(debt_service_coverage(b, amount, borrower_revenue),
                 FMax(cfg.bank_behavior.lending_threshold, Eps))
        composite == Plus(collateral_score, coverage_score)
    IN Less(One, Plus(composite, noise))

\* the composite credit score of the noisy rule, perturbed by the draw
NoisyScore(b, amount, borrower_equity, borrower_revenue, noise, cfg) ==
    LET collateral_score ==
            Over(borrower_equity, FMax(Times(amount, R(500)), Eps))
        coverage_score ==
            Over(debt_service_coverage(b, amount, borrower_revenue),
                 FMax(cfg.bank_behavior.lending_threshold, Eps))
        composite == Plus(Times(R(500), collateral_score),
                          Times(R(500), coverage_score))
    IN Less(One, Plus(composite, noise))

\* a noisy rule that scores the borrower before looking at the hard gates
evaluate_loan_score_first(b, amount, borrower_equity, borrower_revenue, noise, cfg) ==
    IF Positive(cfg.bank_behavior.credit_score_noise_std)
    THEN NoisyScore(b, amount, borrower_equity, borrower_revenue, noise, cfg)
    ELSE evaluate_loan(b, amount, borrower_equity, borrower_revenue, cfg)

\* evaluate_loan called with an rng; noise: the value rng.normal(0, noise_std)
\* returns when the noisy rule draws it
evaluate_loan_with_rng(b, amount, borrower_equity, borrower_revenue, noise, cfg) ==
    IF ~meets_capital_requirement(b, cfg) THEN FALSE
    ELSE IF ~Positive(borrower_revenue) THEN FALSE
    ELSE IF Positive(cfg.bank_behavior.credit_score_noise_std)
    THEN NoisyScore(b, amount, borrower_equity, borrower_revenue, noise, cfg)
    ELSE evaluate_loan(b, amount, borrower_equity, borrower_revenue, cfg)

\* a loan booked without the matching deposit
extend_loan_without_deposit(b, amount) == [ b EXCEPT !.loans = Plus(@, amount) ]

extend_loan(b, amount) ==
    [ b EXCEPT !.loans = Plus(@, amount), !.deposits = Plus(@, amount) ]

record_default(b, amount) ==
    [ b EXCEPT !.non_performing_loans = Plus(@, amount) ]

record_repayment(b, amount) ==
    [ b EXCEPT !.loans = FMax(Minus(@, amount), Zero) ]

---------------------------------------------------------------------------
(* Central bank *)

CentralBankStep(cb, taylor) ==
    IF ~taylor.active THEN cb
    ELSE LET target_rate ==
                 Plus(Plus(cb.inflation_target,
                           Times(taylor.inflation_coefficient,
                                 Minus(cb.current_inflation, cb.inflation_target))),
                      Times(taylor.output_gap_coefficient, cb.output_gap))
             smoothed ==
                 Plus(Times(taylor.interest_rate_smoothing, cb.previous_rate),
                      Times(Minus(One, taylor.interest_rate_smoothing), target_rate))
         IN [ cb EXCEPT !.previous_rate = cb.policy_rate,
                        !.policy_rate = FMax(smoothed, taylor.lower_bound) ]

update_observations(cb, inflation, output_gap) ==
    [ cb EXCEPT !.current_inflation = inflation, !.output_gap = output_gap ]

supply_reserves(cb, amount) ==
    [ cb EXCEPT !.reserves_supplied = Plus(@, amount) ]

---------------------------------------------------------------------------
(* Government *)

\* a period start that keeps the revenue collected so far
begin_period_keeping_revenue(g) ==
    [ g EXCEPT !.expenditure = Zero, !.transfer_spending = Zero ]

begin_period(g) ==
    [ g EXCEPT !.tax_revenue = Zero, !.expenditure = Zero,
               !.transfer_spending = Zero ]

\* tax due on an amount at a rate
TaxDue(amount, rate) == FMax(Times(amount, rate), Zero)

collect_corporate_tax(g, profits, fiscal) ==
    [ g EXCEPT !.tax_revenue = Plus(@, TaxDue(profits, fiscal.tax_rate_corporate)) ]

collect_income_tax(g, income, fiscal) ==
    [ g EXCEPT !.tax_revenue = Plus(@, TaxDue(income, fiscal.tax_rate_income_base)) ]

calculate_spending(g, fiscal) ==
    [ g EXCEPT !.expenditure =
                 Times(fiscal.spending_gdp_ratio, FMax(g.gdp_estimate, Zero)) ]

\* the total unemployment benefit of a period
BenefitTotal(average_wage, unemployed_count, transfers) ==
    Times(Times(transfers.unemployment_benefit_ratio, average_wage),
          N(unemployed_count))

pay_unemployment_benefit(g, average_wage, unemployed_count, transfers) ==
    [ g EXCEPT !.transfer_spending =
                 Plus(@, BenefitTotal(average_wage, unemployed_count, transfers)) ]

apply_fiscal_rule(g, fiscal) ==
    IF ~fiscal.active THEN g
    ELSE IF ~Positive(g.gdp_estimate) THEN g
    ELSE LET current_deficit_ratio ==
                 Over(FAbs(g.deficit), FMax(g.gdp_estimate, Eps))
             gap == Minus(current_deficit_ratio, fiscal.deficit_target)
             adjustment == Times(Times(fiscal.deficit_adjustment_speed, gap),
                                 g.gdp_estimate)
         IN [ g EXCEPT !.expenditure = FMax(Minus(@, adjustment), Zero) ]

GovernmentStep(g, fiscal) == apply_fiscal_rule(g, fiscal)

\* a period end that adds the deficit to the debt
end_period_adding_deficit(g) ==
    LET deficit == Minus(g.tax_revenue, Plus(g.expenditure, g.transfer_spending))
    IN [ g EXCEPT !.deficit = deficit, !.debt = Plus(@, deficit) ]

end_period(g) ==
    LET deficit == Minus(g.tax_revenue, Plus(g.expenditure, g.transfer_spending))
    IN [ g EXCEPT !.deficit = deficit, !.debt = Minus(@, deficit) ]

---------------------------------------------------------------------------
(* Labour market.  A clearing state m holds the agents it works on:        *)
(* m.firms, m.households, m.rng and the market's own fields m.market.      *)

\* firm.fire(1) at the employer, found by identity; then the household leaves
separate(m, j) ==
    LET employer == m.households[j].employer_id
        firms == IF employer # NoEmployer /\ employer \in 1..Len(m.firms)
                 THEN [ m.firms EXCEPT ![employer] = fire(@, 1) ]
                 ELSE m.firms
    IN [ m EXCEPT !.firms = firms,
                  !.households[j] = become_unemployed(@),
                  !.market.total_separations = @ + 1 ]

\* whether the draw u (in thousandths) separates an employed household
SeparationDraw(u, sep_rate) == Less(R(u), sep_rate)

exogenous_separations(m0, cfg) ==
    LET RECURSIVE Go(_, _)
        Go(m, j) ==
            IF j > Len(m.households) THEN m
            ELSE IF ~m.households[j].employed THEN Go(m, j + 1)
            ELSE LET u == Peek(m.rng, 1)
                     drawn == [ m EXCEPT !.rng = Advance(@, 1) ]
                 IN IF SeparationDraw(u, cfg.labor_market.separation_rate)
                    THEN Go(separate(drawn, j), j + 1)
                    ELSE Go(drawn, j + 1)
    IN Go([ m0 EXCEPT !.market.total_separations = 0 ], 1)

\* [h for h in households if h.is_searching(rng)]: one draw per unemployed
\* household, in population order; the result holds the seekers and the rng
Seekers(households, rng0, cfg) ==
    LET RECURSIVE Go(_, _, _)
        Go(j, rng, acc) ==
            IF j > Len(households) THEN [ seekers |-> acc, rng |-> rng ]
            ELSE IF households[j].employed THEN Go(j + 1, rng, acc)
            ELSE Go(j + 1, Advance(rng, 1),
                    IF is_searching(households[j], Peek(rng, 1),
                                    cfg.household_behavior)
                    THEN Append(acc, j) ELSE acc)
    IN Go(1, rng0, <<>>)

\* firms that take part in matching, in population order
HiringFirms(firms) ==
    Where([ idx \in 1..Len(firms) |->
              LET f == firms[idx] IN Positive(f.vacancies) /\ ~f.bankrupt ])

\* the wage of a new match
OfferedWage(average_wage, firm_wage_rate, stickiness) ==
    IF Positive(average_wage)
    THEN Plus(Times(stickiness, average_wage),
              Times(Minus(One, stickiness), firm_wage_rate))
    ELSE firm_wage_rate

match(m0, cfg) ==
    LET found == Seekers(m0.households, m0.rng, cfg)
        seekers == found.seekers
        hiring == HiringFirms(m0.firms)
        efficiency == cfg.labor_market.matching_efficiency
        RECURSIVE Go(_, _, _)
        \* k: position in hiring, idx: seekers consumed so far
        Go(m, k, idx) ==
            IF k > Len(hiring) THEN m
            ELSE LET i == hiring[k]
                 IN IF ~(Positive(m.firms[i].vacancies) /\ idx < Len(seekers))
                    THEN Go(m, k + 1, idx)
                    ELSE LET u == Peek(m.rng, 1)
                             drawn == [ m EXCEPT !.rng = Advance(@, 1) ]
                             j == seekers[idx + 1]
                             wage == OfferedWage(m.market.average_wage,
                                                 m.firms[i].wage_rate,
                                                 cfg.labor_market.wage_stickiness)
                         IN IF Less(efficiency, R(u))
                            THEN Go(drawn, k, idx + 1)
                            ELSE Go([ drawn EXCEPT
                                        !.firms[i] = hire(@, 1, wage),
                                        !.households[j] = become_employed(@, i, wage),
                                        !.market.total_matches = @ + 1 ],
                                    k, idx + 1)
        start == [ m0 EXCEPT !.rng = found.rng, !.market.total_matches = 0 ]
    IN IF hiring = <<>> \/ seekers = <<>> THEN start ELSE Go(start, 1, 0)

update_statistics(m) ==
    LET employed == Where([ idx \in 1..Len(m.households) |->
                              m.households[idx].employed ])
        n_employed == Len(employed)
        n_unemployed == Len(m.households) - n_employed
        total == n_employed + n_unemployed
        wages == Where([ idx \in 1..Len(m.households) |->
                           LET h == m.households[idx]
                           IN h.employed /\ Positive(h.wage) ])
        wage_sum == Sum([ k \in 1..Len(wages) |-> m.households[wages[k]].wage ])
    IN [ m EXCEPT
           !.market.total_employed = n_employed,
           !.market.total_unemployed = n_unemployed,
           !.market.unemployment_rate =
               IF total > 0 THEN Over(N(n_unemployed), N(total)) ELSE Zero,
           !.market.average_wage =
               IF wages # <<>> THEN Over(wage_sum, N(Len(wages))) ELSE Zero ]

LaborMarketClear(m, cfg) ==
    update_statistics(match(exogenous_separations(m, cfg), cfg))

---------------------------------------------------------------------------
(* Credit market.  A clearing state c holds c.firms, c.banks and the       *)
(* market's own fields c.market; c.rates are the rates of the loans made.  *)

reset_period(market) ==
    [ market EXCEPT !.total_lending = Zero, !.total_applications = 0,
                    !.total_approvals = 0, !.total_rejections = 0,
                    !.total_defaults = 0, !.average_rate = Zero ]

process_defaults(c0, cfg) ==
    LET default_base == cfg.credit_market.default_rate_base
        RECURSIVE Banks(_, _, _)
        Banks(c, i, b) ==
            IF b > Len(c.banks) THEN c
            ELSE IF Positive(c.banks[b].loans)
            THEN LET share == FMin(c.firms[i].debt, c.banks[b].loans)
                 IN Banks([ c EXCEPT
                              !.banks[b] = record_default(@, Times(share, default_base)),
                              !.market.total_defaults = @ + 1 ],
                          i, b + 1)
            ELSE Banks(c, i, b + 1)
        RECURSIVE Firms(_, _)
        Firms(c, i) ==
            IF i > Len(c.firms) THEN c
            ELSE IF c.firms[i].bankrupt /\ Positive(c.firms[i].debt)
            THEN Firms(Banks(c, i, 1), i + 1)
            ELSE Firms(c, i + 1)
    IN Firms(c0, 1)

\* an applicant test that lets bankrupt firms apply
AppliesWhenBankrupt(f) == Negative(f.cash)

\* whether a firm applies for a loan in this clearing
Applies(f) == ~f.bankrupt /\ Negative(f.cash)

process_applications(c0, cfg) ==
    LET n_banks == Len(c0.banks)
        RECURSIVE Go(_, _, _)
        Go(c, i, bank_idx) ==
            IF i > Len(c.firms) THEN c
            ELSE IF ~Applies(c.firms[i]) THEN Go(c, i + 1, bank_idx)
            ELSE LET f == c.firms[i]
                     amount == FAbs(f.cash)
                     b == (bank_idx % n_banks) + 1
                     approved == evaluate_loan(c.banks[b], amount, f.equity,
                                               f.turnover, cfg)
                     applied == [ c EXCEPT !.market.total_applications = @ + 1 ]
                 IN IF approved \/ ~cfg.credit_market.rationing
                    THEN Go([ applied EXCEPT
                                !.banks[b] = extend_loan(@, amount),
                                !.firms[i].cash = Plus(@, amount),
                                !.firms[i].debt = Plus(@, amount),
                                !.market.total_approvals = @ + 1,
                                !.market.total_lending = Plus(@, amount),
                                !.rates = Append(@, c.banks[b].interest_rate) ],
                            i + 1, bank_idx + 1)
                    ELSE Go([ applied EXCEPT !.market.total_rejections = @ + 1 ],
                            i + 1, bank_idx + 1)
        done == IF n_banks = 0 THEN c0 ELSE Go(c0, 1, 0)
    IN IF done.rates # <<>>
       THEN [ done EXCEPT !.market.average_rate =
                            Over(Sum(done.rates), N(Len(done.rates))) ]
       ELSE done

CreditMarketClear(c, cfg) ==
    process_applications(
        process_defaults([ c EXCEPT !.market = reset_period(@), !.rates = <<>> ], cfg),
        cfg)

---------------------------------------------------------------------------
(* Goods market.  A clearing state g holds g.firms and the market's own    *)
(* fields g.market; households and government only supply the demand.      *)

\* a weight that grows with the price
WeightOfDearest(max_price, price) == FMax(Plus(price, Eps), Eps)

\* the allocation weight of a firm at a price, given the highest active price
Weight(max_price, price) == FMax(Plus(Minus(max_price, price), Eps), Eps)

\* goods_market.clear is left by the ZeroDivisionError of the first
\* adapt_markup call that raises
goods_clear_raises(firms, cfg) ==
    \E i \in 1..Len(firms) :
        ~firms[i].bankrupt /\ adapt_markup_raises(firms[i], cfg.firm_behavior)

\* the firms that are not bankrupt, in population order
ActiveFirms(firms) == Where([ idx \in 1..Len(firms) |-> ~firms[idx].bankrupt ])

\* actual_sales = min(demand_for_firm, available), available being the
\* firm's inventory x price
ActualSales(f, demand_for_firm) ==
    FMin(demand_for_firm, Times(f.inventory, f.price))

\* firm_excess = (demand_for_firm - available) / max(available, 1e-9)
FirmExcess(f, demand_for_firm) ==
    Over(Minus(demand_for_firm, Times(f.inventory, f.price)),
         FMax(Times(f.inventory, f.price), Eps))

\* the firm after the sale: inventory less actual_sales / max(price, 1e-9),
\* never below 0, and the sales as turnover
Sold(f, actual_sales) ==
    [ f EXCEPT
        !.inventory = FMax(Minus(@, Over(actual_sales, FMax(f.price, Eps))), Zero),
        !.turnover = actual_sales ]

\* one turn of the loop: firm i sells, the sales are added to total_sales,
\* and the firm adapts its markup to its excess demand
Served(g, i, demand_for_firm, behavior) ==
    [ g EXCEPT
        !.firms[i] = adapt_markup(Sold(@, ActualSales(@, demand_for_firm)),
                                  FirmExcess(@, demand_for_firm), Zero, behavior),
        !.market.total_sales = Plus(@, ActualSales(g.firms[i], demand_for_firm)) ]

\* the loop over the active firms and their weights, from the k-th on: the
\* k-th firm is offered demand x (weight / weight_sum); the loop ends with
\* the firm whose adapt_markup raised (the sale leaves the history alone)
RECURSIVE Go(_, _, _, _, _, _, _)
Go(g, stopped, active, weights, total_demand, k, behavior) ==
    IF stopped \/ k > Len(active) THEN g
    ELSE Go(Served(g, active[k],
                   Times(total_demand, Over(weights[k], Sum(weights))), behavior),
            adapt_markup_raises(g.firms[active[k]], behavior),
            active, weights, total_demand, k + 1, behavior)

\* the weights of the active firms: max(max_price - price + 1e-9, 1e-9)
Weights(prices) == [ k \in 1..Len(prices) |-> Weight(MaxSeq(prices), prices[k]) ]

\* the prices of the active firms, in population order
ActivePrices(firms, active) == [ k \in 1..Len(active) |-> firms[active[k]].price ]

\* the market after the loop: the mean price of the active firms becomes the
\* average price, the old one the previous price, and inflation is their
\* relative difference when the previous price is positive
Priced(cleared, average_price, previous_price) ==
    [ cleared EXCEPT
        !.market.previous_price = previous_price,
        !.market.average_price = average_price,
        !.market.inflation =
            IF Positive(previous_price)
            THEN Over(Minus(average_price, previous_price), previous_price)
            ELSE @ ]

\* the end of goods_market.clear after the loop: left by the exception, or
\* the prices of the active firms are averaged
Closed(cleared, raises, active, previous_price) ==
    IF raises THEN cleared
    ELSE Priced(cleared,
                Over(Sum(ActivePrices(cleared.firms, active)), N(Len(active))),
                previous_price)

\* goods_market.clear from the point where excess demand is stored (start):
\* nothing more without active firms, else the loop and its end
ClearActive(start, active, total_demand, raises, behavior) ==
    IF active = <<>> THEN start
    ELSE Closed(Go(start, FALSE, active, Weights(ActivePrices(start.firms, active)),
                   total_demand, 1, behavior),
                raises, active, start.market.average_price)

\* total_supply: the inventories of the active firms at their prices
TotalSupply(firms, active) ==
    Sum([ k \in 1..Len(active) |->
            Times(firms[active[k]].inventory, firms[active[k]].price) ])

\* excess demand is stored and total_sales starts at 0
Opened(g0, total_demand, total_supply) ==
    [ g0 EXCEPT
        !.market.excess_demand = Minus(total_demand, total_supply),
        !.market.total_sales = Zero ]

\* total_demand: household consumption, plus the expenditure of the
\* government when the market has one (government holds it, or nothing)
TotalDemand(households, government) ==
    AddAll(Sum([ j \in 1..Len(households) |-> households[j].consumption ]),
           [ k \in 1..Len(government) |-> government[k].expenditure ])

\* the firms and the market after goods_market.clear, or as the exception
\* leaves them
GoodsMarketClear(g0, households, government, cfg) ==
    ClearActive(Opened(g0, TotalDemand(households, government),
                       TotalSupply(g0.firms, ActiveFirms(g0.firms))),
                ActiveFirms(g0.firms), TotalDemand(households, government),
                goods_clear_raises(g0.firms, cfg), cfg.firm_behavior)

---------------------------------------------------------------------------
(* Simulation.step: the calls of one period, in the order of the source *)

\* an order in which the central bank observes before the goods market clears
StepOrderObservingEarly ==
    << "government.begin_period", "central_bank.step", "bank.set_policy_rate",
       "credit_market.clear", "firm.step", "labor_market.clear",
       "pay_unemployment_benefit", "household.step", "transfer_scrub",
       "calculate_spending", "central_bank.update_observations",
       "goods_market.clear", "collect_corporate_tax", "collect_income_tax",
       "government.step", "government.end_period", "bank.step", "record" >>

StepOrder ==
    << "government.begin_period", "central_bank.step", "bank.set_policy_rate",
       "credit_market.clear", "firm.step", "labor_market.clear",
       "pay_unemployment_benefit", "household.step", "transfer_scrub",
       "calculate_spending", "goods_market.clear", "collect_corporate_tax",
       "collect_income_tax", "government.step", "government.end_period",
       "central_bank.update_observations", "bank.step", "record" >>

DoBeginPeriod(s) ==
    [ s EXCEPT !.current_period = @ + 1, !.government = begin_period(@) ]

DoCentralBankStep(s) ==
    [ s EXCEPT !.central_bank = CentralBankStep(@, s.config.taylor_rule) ]

DoSetPolicyRate(s) ==
    [ s EXCEPT !.banks =
        [ idx \in 1..Len(@) |->
            set_policy_rate(@[idx], s.central_bank.policy_rate,
                            s.config.bank_behavior) ] ]

\* the agents a market of the Simulation works on: the lists of the
\* Simulation once set_agents has handed them over, its own empty lists
\* before
MarketAgents(s, market, agents) == IF market \in s.wired THEN agents ELSE <<>>

DoCreditClear(s) ==
    LET c == CreditMarketClear(
                 [ firms |-> MarketAgents(s, "credit_market", s.firms),
                   banks |-> MarketAgents(s, "credit_market", s.banks),
                   market |-> s.credit_market, rates |-> <<>> ],
                 s.config)
    IN IF "credit_market" \in s.wired
       THEN [ s EXCEPT !.firms = c.firms, !.banks = c.banks,
                       !.credit_market = c.market ]
       ELSE [ s EXCEPT !.credit_market = c.market ]

DoFirmsStep(s) ==
    [ s EXCEPT !.firms = [ idx \in 1..Len(@) |-> FirmStep(@[idx], s.config) ] ]

DoLaborClear(s) ==
    LET m == LaborMarketClear(
                 [ firms |-> MarketAgents(s, "labor_market", s.firms),
                   households |-> MarketAgents(s, "labor_market", s.households),
                   rng |-> s.rng, market |-> s.labor_market ],
                 s.config)
    IN IF "labor_market" \in s.wired
       THEN [ s EXCEPT !.firms = m.firms, !.households = m.households,
                       !.rng = m.rng, !.labor_market = m.market ]
       ELSE [ s EXCEPT !.labor_market = m.market ]

DoPayBenefit(s) ==
    LET avg_wage == s.labor_market.average_wage
        n == Len(Where([ idx \in 1..Len(s.households) |->
                           ~s.households[idx].employed ]))
        benefit == BenefitTotal(avg_wage, n, s.config.transfers)
    IN IF n > 0 /\ Positive(avg_wage)
       THEN [ s EXCEPT
                !.government = pay_unemployment_benefit(@, avg_wage, n,
                                                        s.config.transfers),
                !.households =
                    [ idx \in 1..Len(@) |->
                        LET h == @[idx]
                        IN IF h.employed THEN h
                           ELSE [ h EXCEPT !.transfer_income =
                                             Over(benefit, N(n)) ] ] ]
       ELSE s

DoHouseholdsStep(s) ==
    [ s EXCEPT !.households =
        [ idx \in 1..Len(@) |-> HouseholdStep(@[idx], s.config) ] ]

\* a period that leaves the transfer income on the households
DoTransferScrubSkipped(s) == s

DoTransferScrub(s) ==
    [ s EXCEPT !.households =
        [ idx \in 1..Len(@) |-> [ @[idx] EXCEPT !.transfer_income = Zero ] ] ]

DoCalculateSpending(s) ==
    LET active == ActiveFirms(s.firms)
        gdp == Sum([ k \in 1..Len(active) |-> s.firms[active[k]].turnover ])
    IN [ s EXCEPT !.gdp = gdp,
                  !.government =
                      calculate_spending([ @ EXCEPT !.gdp_estimate = gdp ],
                                         s.config.fiscal_rule) ]

DoGoodsClear(s) ==
    LET g == GoodsMarketClear(
                 [ firms |-> MarketAgents(s, "goods_market", s.firms),
                   market |-> s.goods_market ],
                 MarketAgents(s, "goods_market", s.households),
                 MarketAgents(s, "goods_market", << s.government >>), s.config)
    IN IF "goods_market" \in s.wired
       THEN [ s EXCEPT !.firms = g.firms, !.goods_market = g.market ]
       ELSE [ s EXCEPT !.goods_market = g.market ]

\* whether the scheduler levies corporate tax on a firm
PaysCorporateTax(f) == Positive(f.profit) /\ ~f.bankrupt

DoCorporateTax(s) ==
    LET fiscal == s.config.fiscal_rule
        taxed == Where([ idx \in 1..Len(s.firms) |-> PaysCorporateTax(s.firms[idx]) ])
        RECURSIVE Collect(_, _)
        Collect(g, k) ==
            IF k > Len(taxed) THEN g
            ELSE Collect(collect_corporate_tax(g, s.firms[taxed[k]].profit, fiscal),
                         k + 1)
    IN [ s EXCEPT
           !.government = Collect(@, 1),
           !.firms = [ idx \in 1..Len(@) |->
               LET f == @[idx]
               IN IF PaysCorporateTax(f)
                  THEN [ f EXCEPT !.cash =
                           Minus(@, TaxDue(f.profit, fiscal.tax_rate_corporate)) ]
                  ELSE f ] ]

DoIncomeTax(s) ==
    LET fiscal == s.config.fiscal_rule
        taxed == Where([ idx \in 1..Len(s.households) |->
                           Positive(s.households[idx].income) ])
        RECURSIVE Collect(_, _)
        Collect(g, k) ==
            IF k > Len(taxed) THEN g
            ELSE Collect(collect_income_tax(g, s.households[taxed[k]].income, fiscal),
                         k + 1)
    IN [ s EXCEPT
           !.government = Collect(@, 1),
           !.households = [ idx \in 1..Len(@) |->
               LET h == @[idx]
               IN IF Positive(h.income)
                  THEN [ h EXCEPT !.wealth =
                           Minus(@, TaxDue(h.income, fiscal.tax_rate_income_base)) ]
                  ELSE h ] ]

DoGovernmentStep(s) ==
    [ s EXCEPT !.government = GovernmentStep(@, s.config.fiscal_rule) ]

DoEndPeriod(s) == [ s EXCEPT !.government = end_period(@) ]

DoUpdateObservations(s) ==
    [ s EXCEPT !.central_bank =
        update_observations(@, s.goods_market.inflation, Zero) ]

DoBanksStep(s) ==
    [ s EXCEPT !.banks = [ idx \in 1..Len(@) |-> BankStep(@[idx], s.config) ] ]

\* a record that numbers the periods from 0
PeriodRecordZeroBased(s) ==
    [ period |-> s.current_period - 1,
      gdp |-> s.gdp,
      inflation |-> s.goods_market.inflation,
      unemployment_rate |-> s.labor_market.unemployment_rate,
      average_wage |-> s.labor_market.average_wage,
      policy_rate |-> s.central_bank.policy_rate,
      government_deficit |-> s.government.deficit,
      government_debt |-> s.government.debt,
      total_lending |-> s.credit_market.total_lending,
      firm_bankruptcies |-> Len(s.firms) - Len(ActiveFirms(s.firms)),
      total_employment |-> s.labor_market.total_employed ]

PeriodRecord(s) ==
    [ period |-> s.current_period,
      gdp |-> s.gdp,
      inflation |-> s.goods_market.inflation,
      unemployment_rate |-> s.labor_market.unemployment_rate,
      average_wage |-> s.labor_market.average_wage,
      policy_rate |-> s.central_bank.policy_rate,
      government_deficit |-> s.government.deficit,
      government_debt |-> s.government.debt,
      total_lending |-> s.credit_market.total_lending,
      firm_bankruptcies |-> Len(s.firms) - Len(ActiveFirms(s.firms)),
      total_employment |-> s.labor_market.total_employed ]

DoRecord(s) == [ s EXCEPT !.records = Append(@, PeriodRecord(s)) ]

---------------------------------------------------------------------------
(* The runs *)

\* what the operating system would seed an unseeded generator with
Entropy(r) == MaxSeed + r

\* the entropy a construction can meet
Entropies == { Entropy(1), Entropy(2) }

\* no run or step call has been made on the Simulation
NotCalled ==
    [ kind |-> "none", periods |-> 0, start |-> 0, records |-> <<>>,
      returned |-> FALSE ]

NoFlow ==
    [ wages_paid |-> Zero, wage_income |-> Zero, tax_debited |-> Zero,
      government_demand |-> Zero, defaulted |-> {} ]

\* the stand-alone firms are not part of a Simulation run
MkIdle == [ on |-> FALSE ]

\* sim = Simulation(config)
Init ==
    /\ sim0 \in { NewSimulation(cfg, entropy) : cfg \in Configs, entropy \in Entropies }
    /\ sim = sim0
    /\ raised = <<>>
    /\ call = NotCalled
    /\ pc = 1
    /\ trace = <<>>
    /\ flow = NoFlow
    /\ run = 1
    /\ records1 = <<>>
    /\ mk = MkIdle

\* whether no call on the Simulation is in progress
Idle == call.kind = "none" \/ call.returned

\* the Simulation of the second run has been prepared as that of the first
Prepared ==
    run = 2 => sim.wired = sim0.wired /\ Len(sim.firms) = Len(sim0.firms)

\* the Simulation of the first run as it is before its first step
Found(s2) == IF run = 1 THEN s2 ELSE sim0

\* sim.initialize_agents(), on a Simulation that has no agents and has not
\* stepped: the exception of its last line reaches the caller
InitializeAgents ==
    /\ mk = MkIdle
    /\ pc = 1
    /\ Idle
    /\ sim.current_period = 0
    /\ sim.firms = <<>>
    /\ run = 2 => sim0.firms # <<>>
    /\ sim' = initialize_agents(sim)
    /\ raised' = IF initialize_agents_raises THEN Append(raised, "TypeError")
                 ELSE raised
    /\ sim0' = Found(sim')
    /\ UNCHANGED <<call, pc, trace, flow, run, records1, mk>>

\* sim.credit_market.set_agents(sim.firms, sim.banks), by a caller that has
\* been left with the populated Simulation, before the first step
CreditSetAgents ==
    /\ mk = MkIdle
    /\ pc = 1
    /\ Idle
    /\ sim.current_period = 0
    /\ sim.firms # <<>>
    /\ "credit_market" \notin sim.wired
    /\ run = 2 => "credit_market" \in sim0.wired
    /\ ~credit_set_agents_raises(<< "firms", "banks" >>)
    /\ sim' = credit_set_agents(sim)
    /\ sim0' = Found(sim')
    /\ UNCHANGED <<raised, call, pc, trace, flow, run, records1, mk>>

\* a call is made that takes n periods from the Simulation; the first run
\* takes its periods in any number of calls, the second in one
Begin(kind, n) ==
    /\ mk = MkIdle
    /\ pc = 1
    /\ Idle
    /\ Prepared
    /\ n \in 1..(MaxPeriods - Len(sim.records))
    /\ run = 2 => kind = "run" /\ n = MaxPeriods
    /\ call' = [ kind |-> kind, periods |-> n, start |-> sim.current_period,
                 records |-> <<>>, returned |-> FALSE ]
    /\ UNCHANGED <<sim, raised, pc, trace, flow, run, sim0, records1, mk>>

\* result = sim.run(periods=n), n >= 1
Run == \E n \in 1..MaxPeriods : Begin("run", n)

\* record = sim.step()
Step == Begin("step", 1)

\* the call in progress after the call name of Simulation.step: step returns
\* its record after the last one, run appends it to result.records and
\* returns after the last of its periods
Collected(name, s2) ==
    IF name # "record" THEN call
    ELSE [ call EXCEPT !.records = Append(@, s2.records[Len(s2.records)]),
                       !.returned = Len(call.records) + 1 = call.periods ]

\* Simulation.step makes its next call: name is the call, s2 the Simulation
\* after it, fl2 the flows measured so far in the period
Call(name, s2, fl2) ==
    /\ mk = MkIdle
    /\ ~Idle
    /\ pc \in 1..Len(StepOrder)
    /\ StepOrder[pc] = name
    /\ sim' = s2
    /\ call' = Collected(name, s2)
    /\ flow' = fl2
    /\ pc' = IF pc = Len(StepOrder) THEN 1 ELSE pc + 1
    /\ trace' = IF pc = 1 THEN <<name>> ELSE Append(trace, name)
    /\ UNCHANGED <<raised, run, sim0, records1, mk>>

\* Simulation.step is left by an exception raised in the call name: s2 is
\* the Simulation the exception leaves behind, and no call follows it
Abort(name, s2, fl2) ==
    /\ mk = MkIdle
    /\ ~Idle
    /\ pc \in 1..Len(StepOrder)
    /\ StepOrder[pc] = name
    /\ sim' = s2
    /\ raised' = Append(raised, "ZeroDivisionError")
    /\ flow' = fl2
    /\ pc' = 0
    /\ trace' = Append(trace, name)
    /\ UNCHANGED <<call, run, sim0, records1, mk>>

\* the flows at this point of the period
Flow == IF pc = 1 THEN [ NoFlow EXCEPT !.defaulted = flow.defaulted ] ELSE flow

BeginPeriod == Call("government.begin_period", DoBeginPeriod(sim), Flow)

CentralBankSetsRate == Call("central_bank.step", DoCentralBankStep(sim), Flow)

BanksSetPolicyRate == Call("bank.set_policy_rate", DoSetPolicyRate(sim), Flow)

\* the firms whose debt a clearing has recorded as a default are remembered
CreditClear ==
    Call("credit_market.clear", DoCreditClear(sim),
         [ Flow EXCEPT !.defaulted =
             @ \cup { i \in 1..Len(MarketAgents(sim, "credit_market", sim.firms)) :
                        /\ sim.firms[i].bankrupt
                        /\ Positive(sim.firms[i].debt)
                        /\ \E b \in 1..Len(sim.banks) : Positive(sim.banks[b].loans) } ])

\* the wage bills the firms deduct from revenue in Firm.step
WagesPaid(before, after) ==
    LET stepped == ActiveFirms(before)
    IN Sum([ k \in 1..Len(stepped) |-> after[stepped[k]].wage_bill ])

FirmsStep ==
    LET s2 == DoFirmsStep(sim)
    IN Call("firm.step", s2,
            [ Flow EXCEPT !.wages_paid = WagesPaid(sim.firms, s2.firms) ])

LaborClear == Call("labor_market.clear", DoLaborClear(sim), Flow)

PayBenefit == Call("pay_unemployment_benefit", DoPayBenefit(sim), Flow)

\* the wage income the households receive in Household.step
WageIncome(households) ==
    LET earning == Where([ j \in 1..Len(households) |-> households[j].employed ])
    IN Sum([ k \in 1..Len(earning) |-> households[earning[k]].wage ])

HouseholdsStep ==
    LET s2 == DoHouseholdsStep(sim)
    IN Call("household.step", s2,
            [ Flow EXCEPT !.wage_income = WageIncome(s2.households) ])

TransferScrub == Call("transfer_scrub", DoTransferScrub(sim), Flow)

CalculateSpending == Call("calculate_spending", DoCalculateSpending(sim), Flow)

\* goods_market.clear has left the Simulation s2: by its exception, or by
\* returning to Simulation.step
GoodsClearEnds(s2, raises) ==
    IF raises
    THEN Abort("goods_market.clear", s2, Flow)
    ELSE Call("goods_market.clear", s2,
              [ Flow EXCEPT !.government_demand =
                  TotalDemand(<<>>, MarketAgents(sim, "goods_market",
                                                 << sim.government >>)) ])

\* the government expenditure is part of the demand the goods market clears
GoodsClear ==
    GoodsClearEnds(DoGoodsClear(sim), goods_clear_raises(sim.firms, sim.config))

\* the amount a debit has taken out of a balance: the tax due when the
\* balance has fallen by exactly that, else the fall of the balance
Debit(before, after, due) ==
    IF after = Minus(before, due) THEN due ELSE Minus(before, after)

\* the amounts taken out of the firms' cash between the Simulations s and
\* s2, in population order; the tax due is that of the firms the scheduler
\* taxes and nothing for the others
CorporateTaxDebited(s, s2) ==
    [ i \in 1..Len(s.firms) |->
        Debit(s.firms[i].cash, s2.firms[i].cash,
              IF PaysCorporateTax(s.firms[i])
              THEN TaxDue(s.firms[i].profit, s.config.fiscal_rule.tax_rate_corporate)
              ELSE Zero) ]

CorporateTax ==
    Call("collect_corporate_tax", DoCorporateTax(sim),
         [ Flow EXCEPT !.tax_debited =
             AddAll(@, CorporateTaxDebited(sim, DoCorporateTax(sim))) ])

\* the amounts taken out of the households' wealth between the Simulations
\* s and s2, in population order
IncomeTaxDebited(s, s2) ==
    [ j \in 1..Len(s.households) |->
        Debit(s.households[j].wealth, s2.households[j].wealth,
              IF Positive(s.households[j].income)
              THEN TaxDue(s.households[j].income,
                          s.config.fiscal_rule.tax_rate_income_base)
              ELSE Zero) ]

IncomeTax ==
    Call("collect_income_tax", DoIncomeTax(sim),
         [ Flow EXCEPT !.tax_debited =
             AddAll(@, IncomeTaxDebited(sim, DoIncomeTax(sim))) ])

GovernmentActs == Call("government.step", DoGovernmentStep(sim), Flow)

EndPeriod == Call("government.end_period", DoEndPeriod(sim), Flow)

CentralBankObserves ==
    Call("central_bank.update_observations", DoUpdateObservations(sim), Flow)

BanksStep == Call("bank.step", DoBanksStep(sim), Flow)

Record == Call("record", DoRecord(sim), Flow)

\* the first run is over: sim = Simulation(config) once more, in a process
\* of its own
Rerun ==
    /\ mk = MkIdle
    /\ run = 1
    /\ pc = 1
    /\ Idle
    /\ Len(sim.records) = MaxPeriods
    /\ run' = 2
    /\ records1' = sim.records
    /\ \E entropy \in Entropies : sim' = NewSimulation(sim0.config, entropy)
    /\ call' = NotCalled
    /\ trace' = <<>>
    /\ flow' = NoFlow
    /\ UNCHANGED <<raised, pc, sim0, mk>>

Next ==
    \/ InitializeAgents
    \/ CreditSetAgents
    \/ Run
    \/ Step
    \/ BeginPeriod
    \/ CentralBankSetsRate
    \/ BanksSetPolicyRate
    \/ CreditClear
    \/ FirmsStep
    \/ LaborClear
    \/ PayBenefit
    \/ HouseholdsStep
    \/ TransferScrub
    \/ CalculateSpending
    \/ GoodsClear
    \/ CorporateTax
    \/ IncomeTax
    \/ GovernmentActs
    \/ EndPeriod
    \/ CentralBankObserves
    \/ BanksStep
    \/ Record
    \/ Rerun

Spec == Init /\ [][Next]_vars


(***************************************************************************)
(* Stand-alone firms.  Two firms are built by the Firm constructor from    *)
(* the same arguments and the same FirmBehaviorConfig, and are then driven *)
(* directly: the caller assigns firm.profit, calls Firm.adapt_markup (with *)
(* or without a generator) and calls Firm.step.                            *)
(***************************************************************************)

\* constructor arguments: employees, wage_bill, turnover, capital, cash, equity
FirmArguments ==
    { <<1, 900, 500, 1000, 400, -10000>>,
      <<1, 900, 500, 200, 400, 600>> }

\* the configured starting markup and noise scale, written in thousandths
BehaviorOf(price_markup, noise_std) ==
    [ DefaultConfig.firm_behavior EXCEPT !.price_markup = R(price_markup),
                                         !.markup_noise_std = R(noise_std) ]

\* a shorter satisficing window, which a few calls fill
ShortWindow == [ BehaviorOf(200, 0) EXCEPT !.satisficing_window = 2 ]

Behaviors ==
    { BehaviorOf(m, 0) : m \in {0, 10, 200} }
        \cup { BehaviorOf(200, 50), ShortWindow }

\* the excess-demand signals and the profits a caller passes in
Signals == { R(-5000), R(-1000), R(1000) }
Profits == { R(300) }

\* rng.normal(0, std): what the generator may return, 0 when no generator
\* is passed or the scale is 0
NormalDraws(std) == IF Positive(std) THEN { Times(N(-4), std), std } ELSE { Zero }

NoCall == [ op |-> "none", firm |-> 0 ]

InitFirm ==
    /\ \E a \in FirmArguments, b \in Behaviors :
         LET f == FirmOf(1, a[1], a[2], a[3], a[4], a[5], 0, a[6], b)
         IN mk = [ on |-> TRUE,
                   config |-> [ DefaultConfig EXCEPT !.firm_behavior = b ],
                   firms |-> <<f, f>>,
                   calls |-> 0,
                   last |-> NoCall ]
    /\ sim0 = NewSimulation(DefaultConfig, Entropy(1))
    /\ sim = sim0
    /\ raised = <<>>
    /\ call = NotCalled
    /\ pc = 1
    /\ trace = <<>>
    /\ flow = NoFlow
    /\ run = 1
    /\ records1 = <<>>

\* one call on the stand-alone firms: firms2 is the pair after it
MkCall(firms2, op, i) ==
    /\ mk.on
    /\ mk.calls < MaxCalls
    /\ mk' = [ mk EXCEPT !.firms = firms2, !.calls = @ + 1,
                         !.last = [ op |-> op, firm |-> i ] ]
    /\ UNCHANGED <<sim, raised, call, pc, trace, flow, run, sim0, records1>>

\* the caller assigns firm.profit, as the goods market and the tests do
MkSetProfit ==
    /\ mk.on
    /\ \E i \in 1..2, p \in Profits :
         /\ mk.firms[i].profit # p
         /\ mk' = [ mk EXCEPT !.firms[i].profit = p ]
    /\ UNCHANGED <<sim, raised, call, pc, trace, flow, run, sim0, records1>>

\* firm.adapt_markup(excess_demand, rng)
MkAdaptMarkup ==
    \E i \in 1..2, e \in Signals :
      \E n \in NormalDraws(mk.config.firm_behavior.markup_noise_std) :
        MkCall([ mk.firms EXCEPT ![i] =
                   adapt_markup(@, e, n, mk.config.firm_behavior) ],
               "adapt_markup", i)

\* both firms receive the same signal, no generator passed
MkAdaptBoth ==
    \E e \in Signals :
        MkCall([ i \in 1..2 |->
                   adapt_markup(mk.firms[i], e, Zero, mk.config.firm_behavior) ],
               "adapt_both", 0)

\* firm.step()
MkFirmStep ==
    \E i \in 1..2 :
        MkCall([ mk.firms EXCEPT ![i] = FirmStep(@, mk.config) ], "step", i)

NextFirm ==
    \/ MkSetProfit
    \/ MkAdaptMarkup
    \/ MkAdaptBoth
    \/ MkFirmStep

SpecFirm == InitFirm /\ [][NextFirm]_vars

---------------------------------------------------------------------------
(* A stand-alone central bank: CentralBank(taylor_rule=...) driven through *)
(* update_observations, supply_reserves and step                           *)

\* the Taylor-rule configurations a central bank is constructed with
TaylorRules ==
    { [ DefaultConfig.taylor_rule EXCEPT !.active = a,
                                         !.inflation_target = R(t),
                                         !.lower_bound = R(l) ] :
        a \in BOOLEAN, t \in { 0, 20 }, l \in { 1, 5 } }

\* the inflation rates and output gaps a caller reports
Inflations == { R(-50), R(20), R(100) }

OutputGaps == { R(-100), Zero }

\* the amounts of reserves a caller supplies
ReserveAmounts == { R(250), R(1000) }

InitCentralBank ==
    /\ \E taylor \in TaylorRules :
         mk = [ on |-> TRUE,
                taylor |-> taylor,
                central_bank |-> NewCentralBank(taylor),
                calls |-> 0,
                last |-> "none" ]
    /\ sim0 = NewSimulation(DefaultConfig, Entropy(1))
    /\ sim = sim0
    /\ raised = <<>>
    /\ call = NotCalled
    /\ pc = 1
    /\ trace = <<>>
    /\ flow = NoFlow
    /\ run = 1
    /\ records1 = <<>>

\* one call on the stand-alone central bank
CbCall(cb2, op) ==
    /\ mk.on
    /\ mk.calls < MaxCalls
    /\ mk' = [ mk EXCEPT !.central_bank = cb2, !.calls = @ + 1, !.last = op ]
    /\ UNCHANGED <<sim, raised, call, pc, trace, flow, run, sim0, records1>>

\* central_bank.update_observations(inflation, output_gap)
CbUpdateObservations ==
    \E inflation \in Inflations, output_gap \in OutputGaps :
        CbCall(update_observations(mk.central_bank, inflation, output_gap),
               "update_observations")

\* central_bank.supply_reserves(amount)
CbSupplyReserves ==
    \E amount \in ReserveAmounts :
        CbCall(supply_reserves(mk.central_bank, amount), "supply_reserves")

\* central_bank.step()
CbStep == CbCall(CentralBankStep(mk.central_bank, mk.taylor), "step")

NextCentralBank ==
    \/ CbUpdateObservations
    \/ CbSupplyReserves
    \/ CbStep

SpecCentralBank == InitCentralBank /\ [][NextCentralBank]_vars

---------------------------------------------------------------------------
(* A stand-alone bank: Bank(capital=..., config=..., behavior=...) driven  *)
(* through extend_loan, record_default, record_repayment, set_policy_rate,  *)
(* step and evaluate_loan                                                  *)

\* the standard deviations of the credit-score noise a bank is configured with
NoiseStds == { Zero, R(200) }

\* the values rng.normal(0, std) returns
ScoreNoise(std) == { Times(N(-25), std), Zero, Times(N(25), std) }

LoanAmounts == { R(1000), R(20000) }

\* the amounts a caller reports as defaulted or repaid
BookAmounts == { R(1000) }

BorrowerEquities == { R(400), R(10000) }

BorrowerRevenues == { Zero, R(10), R(2000) }

PolicyRates == { R(20), R(80) }

NoEvaluation == [ op |-> "none" ]

InitBank ==
    /\ \E std \in NoiseStds :
         mk = [ on |-> TRUE,
                config |-> [ DefaultConfig EXCEPT
                               !.bank_behavior.credit_score_noise_std = std ],
                bank |-> NewBank(1, R(1000), R(100)),
                calls |-> 0,
                last |-> NoEvaluation ]
    /\ sim0 = NewSimulation(DefaultConfig, Entropy(1))
    /\ sim = sim0
    /\ raised = <<>>
    /\ call = NotCalled
    /\ pc = 1
    /\ trace = <<>>
    /\ flow = NoFlow
    /\ run = 1
    /\ records1 = <<>>

\* one call that changes the stand-alone bank
BkCall(bank2, op) ==
    /\ mk.on
    /\ mk.calls < MaxCalls
    /\ mk' = [ mk EXCEPT !.bank = bank2, !.calls = @ + 1, !.last = [ op |-> op ] ]
    /\ UNCHANGED <<sim, raised, call, pc, trace, flow, run, sim0, records1>>

\* bank.extend_loan(amount)
BkExtendLoan ==
    \E amount \in LoanAmounts : BkCall(extend_loan(mk.bank, amount), "extend_loan")

\* bank.record_default(amount)
BkRecordDefault ==
    \E amount \in BookAmounts :
        BkCall(record_default(mk.bank, amount), "record_default")

\* bank.record_repayment(amount)
BkRecordRepayment ==
    \E amount \in BookAmounts :
        BkCall(record_repayment(mk.bank, amount), "record_repayment")

\* bank.set_policy_rate(rate)
BkSetPolicyRate ==
    \E rate \in PolicyRates :
        BkCall(set_policy_rate(mk.bank, rate, mk.config.bank_behavior),
               "set_policy_rate")

\* bank.step()
BkStep == BkCall(BankStep(mk.bank, mk.config), "step")

\* approved = bank.evaluate_loan(amount, equity, revenue, rng): the bank is
\* left as it is, the decision is kept with the arguments of the call
BkEvaluateLoan ==
    /\ mk.on
    /\ \E amount \in LoanAmounts, equity \in BorrowerEquities,
          revenue \in BorrowerRevenues, rng \in BOOLEAN :
         \E noise \in IF rng
                      THEN ScoreNoise(mk.config.bank_behavior.credit_score_noise_std)
                      ELSE { Zero } :
           mk' = [ mk EXCEPT !.last =
                     [ op |-> "evaluate_loan", amount |-> amount,
                       equity |-> equity, revenue |-> revenue,
                       rng |-> rng, noise |-> noise,
                       approved |->
                         IF rng
                         THEN evaluate_loan_with_rng(mk.bank, amount, equity,
                                                     revenue, noise, mk.config)
                         ELSE evaluate_loan(mk.bank, amount, equity, revenue,
                                            mk.config) ] ]
    /\ UNCHANGED <<sim, raised, call, pc, trace, flow, run, sim0, records1>>

NextBank ==
    \/ BkExtendLoan
    \/ BkRecordDefault
    \/ BkRecordRepayment
    \/ BkSetPolicyRate
    \/ BkStep
    \/ BkEvaluateLoan

SpecBank == InitBank /\ [][NextBank]_vars

---------------------------------------------------------------------------
(* Evaluation: evaluate_simulation(result, targets, warm_up) builds an     *)
(* EvaluationReport whose overall_score is then read.  A statistic is a    *)
(* float that may be NaN: [nan |-> TRUE] or [nan |-> FALSE, v |-> value].  *)

NaN == [ nan |-> TRUE, v |-> Zero ]

Num(v) == [ nan |-> FALSE, v |-> v ]

Inf == [ inf |-> TRUE, v |-> Zero ]

\* the target lists evaluate_simulation is called with: TargetStat(name,
\* target_value, tolerance, weight), taken from DEFAULT_TARGETS
TargetLists ==
    LET gdp_growth_mean == [ name |-> "gdp_growth_mean", target_value |-> R(5),
                             tolerance |-> R(3), weight |-> N(2) ]
        government_debt_gdp == [ name |-> "government_debt_gdp",
                                 target_value |-> R(850), tolerance |-> R(200),
                                 weight |-> One ]
        wage_share == [ name |-> "wage_share", target_value |-> R(550),
                        tolerance |-> R(100), weight |-> One ]
    IN { <<>>, <<gdp_growth_mean>>, <<gdp_growth_mean, government_debt_gdp>>,
         <<gdp_growth_mean, government_debt_gdp, wage_share>> }

\* the values compute_simulation_stats can report for a target: NaN (no
\* record left after warm-up, or no period with positive GDP), the target
\* itself, the target plus half the tolerance, the target plus the
\* tolerance, twice the target and, far from every target, 1.618
StatValues(t) ==
    { NaN, Num(t.target_value),
      Num(Plus(t.target_value, Over(t.tolerance, N(2)))),
      Num(Plus(t.target_value, t.tolerance)),
      Num(Times(N(2), t.target_value)),
      Num(R(1618)) }

\* the StatResult evaluate_simulation appends for target t
StatResult(t, simulated) ==
    IF simulated.nan \/ t.target_value = Zero
    THEN [ name |-> t.name, simulated |-> simulated, target |-> t.target_value,
           deviation |-> NaN, tolerance |-> t.tolerance, passed |-> FALSE,
           weight |-> t.weight ]
    ELSE [ name |-> t.name, simulated |-> simulated, target |-> t.target_value,
           deviation |-> Num(Over(Minus(simulated.v, t.target_value),
                                  FAbs(t.target_value))),
           tolerance |-> t.tolerance,
           passed |-> LessEq(FAbs(Minus(simulated.v, t.target_value)), t.tolerance),
           weight |-> t.weight ]

\* stats: the statistic reported for each target, in the order of the targets
evaluate_simulation(targets, stats) ==
    [ k \in 1..Len(targets) |-> StatResult(targets[k], stats[k]) ]

\* the positions of the results whose deviation is a number
Numbered(results) ==
    Where([ k \in 1..Len(results) |-> ~results[k].deviation.nan ])

\* the terms r.weight * r.deviation**2 of the results at the positions
\* counted, on a processor with fused multiply-add (fast_fma) or without
SquareTerms(results, counted, fast_fma) ==
    [ k \in 1..Len(counted) |->
        Times(results[counted[k]].weight,
              float_pow(results[counted[k]].deviation.v, N(2), fast_fma)) ]

\* EvaluationReport.overall_score
overall_score(results, fast_fma) ==
    LET total_weight == Sum([ k \in 1..Len(results) |-> results[k].weight ])
    IN IF results = <<>> THEN Inf
       ELSE IF total_weight = Zero THEN Inf
       ELSE [ inf |-> FALSE,
              v |-> Sqrt(Over(Sum(SquareTerms(results, Numbered(results), fast_fma)),
                              total_weight)) ]

\* the evaluation runs on a processor with fused multiply-add or on one
\* without
InitEvaluation ==
    /\ \E targets \in TargetLists, fast_fma \in BOOLEAN :
         mk = [ on |-> TRUE, targets |-> targets, results |-> <<>>,
                score |-> Inf, last |-> "none", fast_fma |-> fast_fma ]
    /\ sim0 = NewSimulation(DefaultConfig, Entropy(1))
    /\ sim = sim0
    /\ raised = <<>>
    /\ call = NotCalled
    /\ pc = 1
    /\ trace = <<>>
    /\ flow = NoFlow
    /\ run = 1
    /\ records1 = <<>>

\* report = evaluate_simulation(result, targets, warm_up), called on the
\* result of a run
EvEvaluate ==
    /\ mk.on
    /\ mk.last = "none"
    /\ \E stats \in [ 1..Len(mk.targets) -> UNION { StatValues(mk.targets[k]) :
                                                     k \in 1..Len(mk.targets) } ] :
         /\ \A k \in 1..Len(mk.targets) : stats[k] \in StatValues(mk.targets[k])
         /\ mk' = [ mk EXCEPT !.results = evaluate_simulation(mk.targets, stats),
                              !.last = "evaluate_simulation" ]
    /\ UNCHANGED <<sim, raised, call, pc, trace, flow, run, sim0, records1>>

\* report.overall_score
EvScore ==
    /\ mk.on
    /\ mk.last = "evaluate_simulation"
    /\ mk' = [ mk EXCEPT !.score = overall_score(mk.results, mk.fast_fma),
                         !.last = "overall_score" ]
    /\ UNCHANGED <<sim, raised, call, pc, trace, flow, run, sim0, records1>>

NextEvaluation ==
    \/ EvEvaluate
    \/ EvScore

SpecEvaluation == InitEvaluation /\ [][NextEvaluation]_vars

---------------------------------------------------------------------------
(* Calibration: parameter_sweep(param_grid, base_factory=...) visits the   *)
(* combinations of the grid one after the other; mk.i is the position of   *)
(* its loop                                                                *)

\* itertools.product(*value_lists): the last list varies fastest
RECURSIVE Product(_)
Product(value_lists) ==
    IF value_lists = <<>> THEN << <<>> >>
    ELSE LET rest == Product(Tail(value_lists))
             first == Head(value_lists)
             n == Len(rest)
         IN [ k \in 1..(Len(first) * n) |->
                <<first[((k - 1) \div n) + 1]>> \o rest[((k - 1) % n) + 1] ]

\* the value lists of the grids swept, in key-insertion order
Grids ==
    { << <<1, 2>>, <<10, 20, 30>> >>,
      << <<1, 2, 3>>, <<10, 20>> >>,
      << <<1, 2>> >>,
      << <<1, 2>>, <<>> >> }

\* what happens to a combination: it is evaluated, or base_factory, sim.run
\* or evaluate_simulation raises an exception
Outcomes == { "ok", "factory raises", "run raises", "evaluation raises" }

\* a loop body that lets the exception of a combination end the sweep
sweep_iteration_aborting(sw, combo, outcome) ==
    [ sw EXCEPT !.factory_calls = Append(@, combo),
                !.results = IF outcome = "ok" THEN Append(@, combo) ELSE @,
                !.i = IF outcome = "ok" THEN @ + 1
                      ELSE Len(Product(sw.value_lists)) + 1 ]

\* one pass of the loop body for combination combo: the factory is called,
\* and a SweepResult is appended unless something raised
sweep_iteration(sw, combo, outcome) ==
    [ sw EXCEPT !.factory_calls = Append(@, combo),
                !.results = IF outcome = "ok" THEN Append(@, combo) ELSE @,
                !.i = @ + 1 ]

InitSweep ==
    /\ \E value_lists \in Grids :
         \E outcomes \in [ 1..Len(Product(value_lists)) -> Outcomes ] :
           /\ Cardinality({ k \in DOMAIN outcomes : outcomes[k] # "ok" }) <= 1
           /\ mk = [ on |-> TRUE, value_lists |-> value_lists,
                     outcomes |-> outcomes, i |-> 1, factory_calls |-> <<>>,
                     results |-> <<>>, returned |-> FALSE ]
    /\ sim0 = NewSimulation(DefaultConfig, Entropy(1))
    /\ sim = sim0
    /\ raised = <<>>
    /\ call = NotCalled
    /\ pc = 1
    /\ trace = <<>>
    /\ flow = NoFlow
    /\ run = 1
    /\ records1 = <<>>

\* the loop of parameter_sweep handles its next combination
SwIterate ==
    /\ mk.on
    /\ ~mk.returned
    /\ mk.i <= Len(Product(mk.value_lists))
    /\ mk' = sweep_iteration(mk, Product(mk.value_lists)[mk.i], mk.outcomes[mk.i])
    /\ UNCHANGED <<sim, raised, call, pc, trace, flow, run, sim0, records1>>

\* the loop is over: parameter_sweep returns the summary
SwReturn ==
    /\ mk.on
    /\ ~mk.returned
    /\ mk.i > Len(Product(mk.value_lists))
    /\ mk' = [ mk EXCEPT !.returned = TRUE ]
    /\ UNCHANGED <<sim, raised, call, pc, trace, flow, run, sim0, records1>>

NextSweep ==
    \/ SwIterate
    \/ SwReturn

SpecSweep == InitSweep /\ [][NextSweep]_vars

---------------------------------------------------------------------------
(* A stand-alone credit market: CreditMarket(config).set_agents(firms,     *)
(* banks) cleared a number of times                                        *)

\* the firms registered with the market: short of cash or not, with or
\* without collateral, bankrupt with debt, or in need of a large loan
CreditFirms ==
    { FirmOf(0, 1, 900, 5000, 0, -1000, 0, 2000, DefaultConfig.firm_behavior),
      FirmOf(0, 1, 900, 5000, 0, -1000, 0, 100, DefaultConfig.firm_behavior),
      FirmOf(0, 1, 900, 5000, 0, 500, 0, 2000, DefaultConfig.firm_behavior),
      [ FirmOf(0, 1, 900, 5000, 0, -1000, 800, 2000, DefaultConfig.firm_behavior)
          EXCEPT !.bankrupt = TRUE ],
      FirmOf(0, 1, 900, 50000, 0, -9000, 0, 5000, DefaultConfig.firm_behavior) }

InitCredit ==
    /\ \E firms \in [ 1..NumFirms -> CreditFirms ], capital \in { 1000, 100000 },
          rationing \in BOOLEAN :
         mk = [ on |-> TRUE,
                config |-> [ DefaultConfig EXCEPT !.credit_market.rationing = rationing ],
                firms |-> [ i \in 1..NumFirms |-> [ firms[i] EXCEPT !.agent_id = i ] ],
                banks |-> <<NewBank(1, R(capital), R(100)),
                          NewBank(2, R(100000), R(10000))>>,
                market |-> NewCreditMarket,
                calls |-> 0 ]
    /\ sim0 = NewSimulation(DefaultConfig, Entropy(1))
    /\ sim = sim0
    /\ raised = <<>>
    /\ call = NotCalled
    /\ pc = 1
    /\ trace = <<>>
    /\ flow = NoFlow
    /\ run = 1
    /\ records1 = <<>>

\* credit_market.clear()
CrClear ==
    /\ mk.on
    /\ mk.calls < MaxCalls
    /\ LET c == CreditMarketClear([ firms |-> mk.firms, banks |-> mk.banks,
                                    market |-> mk.market, rates |-> <<>> ],
                                  mk.config)
       IN mk' = [ mk EXCEPT !.firms = c.firms, !.banks = c.banks,
                            !.market = c.market, !.calls = @ + 1 ]
    /\ UNCHANGED <<sim, raised, call, pc, trace, flow, run, sim0, records1>>

SpecCredit == InitCredit /\ [][CrClear]_vars

---------------------------------------------------------------------------
(* A stand-alone producer: Firm(employees=..., ...) that steps while the   *)
(* labour market hires and fires and a goods market of its own clears      *)

InitProduction ==
    /\ \E employees \in 0..3, turnover \in { 1500, 3000, 6200 },
          capital \in { 200, 5000, 10000 } :
         mk = [ on |-> TRUE,
                config |-> DefaultConfig,
                firm |-> FirmOf(1, employees, 900 * employees, turnover, capital,
                                1000, 0, capital + 1000,
                                DefaultConfig.firm_behavior),
                market |-> NewGoodsMarket,
                hired |-> 0,
                calls |-> 0,
                last |-> "none" ]
    /\ sim0 = NewSimulation(DefaultConfig, Entropy(1))
    /\ sim = sim0
    /\ raised = <<>>
    /\ call = NotCalled
    /\ pc = 1
    /\ trace = <<>>
    /\ flow = NoFlow
    /\ run = 1
    /\ records1 = <<>>

\* one call on the stand-alone producer; hired counts the workers taken on
\* since construction
PrCall(firm2, op) ==
    /\ mk.on
    /\ mk.calls < MaxCalls
    /\ mk' = [ mk EXCEPT !.firm = firm2, !.calls = @ + 1, !.last = op,
                         !.hired = @ + Max(firm2.employees - mk.firm.employees, 0) ]
    /\ UNCHANGED <<sim, raised, call, pc, trace, flow, run, sim0, records1>>

\* firm.step()
PrStep == PrCall(FirmStep(mk.firm, mk.config), "step")

\* firm.hire(count, wage), as the labour market calls it
PrHire == \E count \in 1..2 : PrCall(hire(mk.firm, count, R(900)), "hire")

\* firm.fire(1), as a separation calls it
PrFire == PrCall(fire(mk.firm, 1), "fire")

\* the consumption the households bring to the goods market
Consumptions == { Zero, N(6) }

\* goods_market.clear() of a market whose one firm is the producer and whose
\* one household wants to consume: the sale is capped at the inventory, the
\* inventory reduced, the turnover booked and the markup adapted, and a
\* bankrupt producer is passed over
PrSell ==
    \E consumption \in Consumptions :
        LET g == GoodsMarketClear([ firms |-> << mk.firm >>, market |-> mk.market ],
                                  << [ consumption |-> consumption ] >>, <<>>,
                                  mk.config)
        IN /\ mk.on
           /\ mk.calls < MaxCalls
           /\ mk' = [ mk EXCEPT !.firm = g.firms[1], !.market = g.market,
                                !.calls = @ + 1, !.last = "sell" ]
           /\ UNCHANGED <<sim, raised, call, pc, trace, flow, run, sim0, records1>>

NextProduction ==
    \/ PrStep
    \/ PrHire
    \/ PrFire
    \/ PrSell

SpecProduction == InitProduction /\ [][NextProduction]_vars

---------------------------------------------------------------------------
(* A stand-alone firm whose profit the caller assigns between calls of     *)
(* adapt_markup; recorded is every profit rate the calls appended          *)

\* satisficing_window as configured
Windows == { 0, 1, 2 }

\* the profits a caller assigns between adaptations
HistoryProfits == { R(-200), R(100), R(300) }

InitHistory ==
    /\ \E window \in Windows :
         LET b == [ DefaultConfig.firm_behavior
                      EXCEPT !.satisficing_window = window ]
         IN mk = [ on |-> TRUE,
                   config |-> [ DefaultConfig EXCEPT !.firm_behavior = b ],
                   firm |-> FirmOf(1, 1, 900, 1000, 1000, 1000, 0, 2000, b),
                   recorded |-> <<>>,
                   raised |-> FALSE,
                   calls |-> 0 ]
    /\ sim0 = NewSimulation(DefaultConfig, Entropy(1))
    /\ sim = sim0
    /\ raised = <<>>
    /\ call = NotCalled
    /\ pc = 1
    /\ trace = <<>>
    /\ flow = NoFlow
    /\ run = 1
    /\ records1 = <<>>

\* firm.profit = p
HsSetProfit ==
    /\ mk.on
    /\ ~mk.raised
    /\ \E p \in HistoryProfits :
         /\ mk.firm.profit # p
         /\ mk' = [ mk EXCEPT !.firm.profit = p ]
    /\ UNCHANGED <<sim, raised, call, pc, trace, flow, run, sim0, records1>>

\* firm.adapt_markup(excess_demand); a call that raises ZeroDivisionError
\* ends the caller, which makes no call after it
HsAdaptMarkup ==
    /\ mk.on
    /\ ~mk.raised
    /\ mk.calls < MaxCalls
    /\ \E e \in Signals :
         mk' = [ mk EXCEPT
                   !.firm = adapt_markup(@, e, Zero, mk.config.firm_behavior),
                   !.raised = adapt_markup_raises(mk.firm, mk.config.firm_behavior),
                   !.recorded = Append(@, Over(mk.firm.profit,
                                               FMax(FAbs(mk.firm.turnover), Eps))),
                   !.calls = @ + 1 ]
    /\ UNCHANGED <<sim, raised, call, pc, trace, flow, run, sim0, records1>>

NextHistory ==
    \/ HsSetProfit
    \/ HsAdaptMarkup

SpecHistory == InitHistory /\ [][NextHistory]_vars


(***************************************************************************)
(* Properties                                                              *)
(***************************************************************************)

Last(s) == s[Len(s)]

IsPrefix(s, t) == Len(s) <= Len(t) /\ \A i \in 1..Len(s) : s[i] = t[i]

\* the relative difference two numbers may have and still count as equal
\* (1e-6): far more than the rounding of a few float operations, far less
\* than any difference between the amounts of the populations
Tolerance == Norm(1, -6)

\* a and b are equal up to the rounding of float operations
Close(a, b) ==
    LessEq(FAbs(Minus(a, b)), Times(Tolerance, FMax(FAbs(a), FAbs(b))))

\* the call Simulation.step has just made
Called(name) == mk = MkIdle /\ trace # <<>> /\ Last(trace) = name

\* Simulation.step makes this call in the step taken
Calls(name) == mk = MkIdle /\ pc' # pc /\ StepOrder[pc] = name

\* the simulation is as Simulation.initialize_agents leaves it: populated,
\* the TypeError of its last call raised, the credit market without agents
AsInitialized ==
    /\ sim.firms # <<>>
    /\ sim.wired = { "goods_market", "labor_market" }
    /\ raised # <<>>
    /\ raised[1] = "TypeError"

ContractOrder ==
    << "government.begin_period", "central_bank.step", "bank.set_policy_rate",
       "credit_market.clear", "firm.step", "labor_market.clear",
       "pay_unemployment_benefit", "household.step", "transfer_scrub",
       "calculate_spending", "goods_market.clear", "collect_corporate_tax",
       "collect_income_tax", "government.step", "government.end_period",
       "central_bank.update_observations", "bank.step", "record" >>

OrderStep ==
    /\ IsPrefix(trace', ContractOrder)
    /\ (Calls("record") /\ run' = run) => trace' = ContractOrder
    /\ (Calls("central_bank.step") /\ sim.records # <<>>) =>
          sim'.central_bank =
              CentralBankStep([ sim.central_bank EXCEPT !.current_inflation =
                                  Last(sim.records).inflation ],
                              sim.config.taylor_rule)
    /\ (mk = MkIdle /\ run' = run /\ ~Calls("central_bank.step")) =>
          sim'.central_bank.policy_rate = sim.central_bank.policy_rate

\* C2: within a period the calls are made in the order of ContractOrder, so
\* the policy rate of period t (set by central_bank.step, unchanged until the
\* record is taken) is computed from the inflation recorded for period t-1
OrderContract == [][OrderStep]_vars

\* two periods are complete, in order, and the rate moved with inflation
OrderWitness ==
    /\ mk = MkIdle
    /\ pc = 1
    /\ AsInitialized
    /\ trace = ContractOrder
    /\ Len(sim.records) >= 2
    /\ sim.records[1].inflation # sim.config.taylor_rule.inflation_target
    /\ sim.records[2].policy_rate # sim.records[1].policy_rate

FirmFrozen(before, after) ==
    /\ after.bankrupt
    /\ after.employees = before.employees
    /\ after.wage_bill = before.wage_bill
    /\ after.output = before.output
    /\ after.price = before.price
    /\ after.markup = before.markup
    /\ after.inventory = before.inventory
    /\ after.cash = before.cash
    /\ after.debt = before.debt

\* C3: once a firm is bankrupt it stays bankrupt for the rest of the run and
\* no call of Simulation.step changes its employees, wage bill, output, price,
\* markup, inventory, cash or debt
BankruptAbsorbing ==
    [][ (mk = MkIdle /\ run' = run) =>
          \A i \in 1..Len(sim.firms) :
              sim.firms[i].bankrupt => FirmFrozen(sim.firms[i], sim'.firms[i]) ]_vars

\* C5: after every labor_market.clear the employees of all firms add up to
\* the number of employed households, and every employed household's employer
\* id is the id of a firm of the simulation
EmploymentParity ==
    Called("labor_market.clear") =>
      /\ SumSeq([ i \in 1..Len(sim.firms) |-> sim.firms[i].employees ])
           = Len(Where([ j \in 1..Len(sim.households) |->
                           sim.households[j].employed ]))
      /\ \A j \in 1..Len(sim.households) :
            sim.households[j].employed =>
               \E i \in 1..Len(sim.firms) :
                   sim.firms[i].agent_id = sim.households[j].employer_id

\* C6: in every period the wage bills the firms deduct in Firm.step add up to
\* the wage income the households receive in Household.step
WageFlowConsistency ==
    Called("household.step") => Close(flow.wages_paid, flow.wage_income)

\* the firms a credit clearing lent to
Borrowers(before, after) ==
    { i \in 1..Len(before) : after[i].cash # before[i].cash }

\* the amounts lent to the firms of a set, in population order
AmountsLent(firms, set) ==
    LET lent == Where([ i \in 1..Len(firms) |-> i \in set ])
    IN [ k \in 1..Len(lent) |-> FAbs(firms[lent[k]].cash) ]

\* the banks' books as the defaults of the clearing leave them, before the
\* applications are processed
BooksAfterDefaults ==
    process_defaults([ firms |-> mk.firms, banks |-> mk.banks,
                       market |-> reset_period(mk.market), rates |-> <<>> ],
                     mk.config).banks

CreditStep ==
    (mk.on /\ mk'.on /\ mk'.calls # mk.calls) =>
      LET granted == Borrowers(mk.firms, mk'.firms)
      IN /\ mk'.market.total_lending = Sum(AmountsLent(mk.firms, granted))
         /\ Cardinality(granted) = mk'.market.total_approvals
         /\ \A i \in 1..Len(mk.firms) :
               IF i \in granted
               THEN /\ mk'.firms[i].cash =
                           Plus(mk.firms[i].cash, FAbs(mk.firms[i].cash))
                    /\ mk'.firms[i].debt =
                           Plus(mk.firms[i].debt, FAbs(mk.firms[i].cash))
               ELSE mk'.firms[i] = mk.firms[i]
         /\ \E lender \in [ 1..Len(mk.firms) -> 1..Len(mk.banks) ] :
               \A b \in 1..Len(mk.banks) :
                   LET lent == AmountsLent(mk.firms,
                                           { i \in granted : lender[i] = b })
                   IN /\ mk'.banks[b].loans =
                             AddAll(BooksAfterDefaults[b].loans, lent)
                      /\ mk'.banks[b].deposits =
                             AddAll(BooksAfterDefaults[b].deposits, lent)

\* C7: in every credit_market.clear the amounts added to bank loans, to bank
\* deposits, to firm cash and to firm debt are the amounts that make up the
\* published total_lending, each loan added once to the books of one bank,
\* and a firm whose application is rejected keeps its balances
CreditConservation == [][CreditStep]_vars

\* a clearing that lent to one firm short of cash and turned another down:
\* the borrower's cash is made up and its debt is the loan, the firm turned
\* down is as short of cash as before and owes nothing
CreditWitness ==
    /\ mk.on
    /\ mk.calls = 1
    /\ mk.market.total_approvals > 0
    /\ mk.market.total_rejections > 0
    /\ Positive(mk.market.total_lending)
    /\ \E i \in 1..Len(mk.firms) :
           mk.firms[i].cash = Zero /\ Positive(mk.firms[i].debt)
    /\ \E i \in 1..Len(mk.firms) :
           /\ ~mk.firms[i].bankrupt
           /\ Negative(mk.firms[i].cash)
           /\ mk.firms[i].debt = Zero
    /\ \E b \in 1..Len(mk.banks) : Positive(mk.banks[b].deposits)

\* C8: the tax_revenue the government holds when end_period runs equals the
\* tax debited from firm cash and household wealth since begin_period
TaxAccounting ==
    Called("government.end_period") => sim.government.tax_revenue = flow.tax_debited

\* the end of a later period in which tax was collected, after a first
\* period that collected tax as well
TaxWitness ==
    /\ Called("government.end_period")
    /\ AsInitialized
    /\ Len(sim.records) >= 1
    /\ sim.records[1].total_employment > 0
    /\ Positive(sim.government.tax_revenue)
    /\ Positive(flow.tax_debited)

\* firm.step() is called on stand-alone firm i in the step taken
StepsFirm(i) ==
    /\ mk.on
    /\ mk'.calls = mk.calls + 1
    /\ mk'.last = [ op |-> "step", firm |-> i ]

\* C4: Firm.step called on a firm whose bankrupt flag is set changes none of
\* its attributes, however many calls follow one another, and leaves the
\* flag set
BankruptStepNoOp ==
    [][ \A i \in 1..2 :
          (StepsFirm(i) /\ mk.firms[i].bankrupt) => mk'.firms[i] = mk.firms[i] ]_vars

\* every call so far was firm.step() on the first firm: the first call made
\* it bankrupt and the calls after it left it as the first call did
BankruptStepWitness ==
    /\ mk.on
    /\ mk.calls = MaxCalls
    /\ mk.last = [ op |-> "step", firm |-> 1 ]
    /\ mk.firms[1].bankrupt
    /\ mk.firms[1].employees = 1
    /\ Negative(mk.firms[1].profit)
    /\ ~mk.firms[2].bankrupt
    /\ mk.firms[2].profit = Zero
    /\ mk.firms[2].profit_rate_history = <<>>
    /\ mk.firms[1] = FirmStep(mk.firms[2], mk.config)

\* C9: once adapt_markup has been called on a firm (its profit-rate history
\* is no longer empty), whatever the signals, the noise and the configured
\* starting markup, the firm's markup is at least 0.01
MarkupFloor ==
    mk.on =>
      \A i \in 1..2 :
          mk.firms[i].profit_rate_history # <<>> =>
              LessEq(R(10), mk.firms[i].markup)

Mean(h) == Over(Sum(h), N(Len(h)))

SameButHistory(a, b) ==
    [ a EXCEPT !.profit_rate_history = <<>> ] = [ b EXCEPT !.profit_rate_history = <<>> ]

\* firm i is satisficed (its history fills the satisficing window and its
\* mean is at or above the aspiration rate) and the mean of firm j is below
\* the aspiration rate, on the histories the call decided on
SatisficedPair(firms, i, j, behavior) ==
    /\ Len(firms[i].profit_rate_history) = behavior.satisficing_window
    /\ LessEq(behavior.satisficing_aspiration_rate,
              Mean(firms[i].profit_rate_history))
    /\ Less(Mean(firms[j].profit_rate_history),
            behavior.satisficing_aspiration_rate)

\* the move of firm i's markup in the step taken
MarkupMove(i) == Minus(mk'.firms[i].markup, mk.firms[i].markup)

\* adapt_markup is called on two firms that differ in their history only,
\* with the same signal and no noise; firm i is satisficed, firm j is not,
\* and neither markup ends at the floor
PairCase(i, j) ==
    /\ mk.on
    /\ mk'.calls = mk.calls + 1
    /\ mk'.last.op = "adapt_both"
    /\ SameButHistory(mk.firms[1], mk.firms[2])
    /\ SatisficedPair(mk'.firms, i, j, mk.config.firm_behavior)
    /\ Less(R(10), mk'.firms[i].markup)
    /\ Less(R(10), mk'.firms[j].markup)

\* C10 as stated: two firms that differ only in their profit-rate history
\* receive the same signal without noise; when the one is satisficed and
\* the other is not, and neither markup ends at the floor, the satisficed
\* firm's markup moves by exactly one tenth of the other's move
SatisficingRatio ==
    [][ \A i, j \in 1..2 :
          PairCase(i, j) => Times(N(10), MarkupMove(i)) = MarkupMove(j) ]_vars

\* one unit in the last place of a positive float
Ulp(a) == [ hi |-> Two(24), lo |-> 0, e |-> a.e - 52 ]

\* the units in the last place the two moves may be apart
RoundingUnits == 64

\* the largest of the markup before the call and the two markups after it
LargestMarkup == FMax(mk.firms[1].markup,
                      FMax(mk'.firms[1].markup, mk'.firms[2].markup))

\* C10: under the same conditions ten times the satisficed firm's move and
\* the other firm's move differ by at most 64 units in the last place of the
\* largest markup involved: the two adjustments are speed x excess_demand
\* and that product x 0.1, each added to the markup with a rounding of its
\* own
SatisficingRatioRounded ==
    [][ \A i, j \in 1..2 :
          PairCase(i, j) =>
              LessEq(FAbs(Minus(Times(N(10), MarkupMove(i)), MarkupMove(j))),
                     Times(N(RoundingUnits), Ulp(LargestMarkup))) ]_vars

\* the pair was called with one firm satisficed on a full window and the
\* other not, and the two markups, equal before the call, have moved apart
\* above the floor
SatisficingWitness ==
    /\ mk.on
    /\ mk.last.op = "adapt_both"
    /\ mk.config.firm_behavior.satisficing_window = 2
    /\ SatisficedPair(mk.firms, 1, 2, mk.config.firm_behavior)
    /\ mk.firms[1].profit_rate_history = <<R(600), R(600)>>
    /\ mk.firms[2].profit_rate_history = <<Zero, R(600)>>
    /\ [ mk.firms[1] EXCEPT !.profit_rate_history = <<>>, !.markup = Zero ]
         = [ mk.firms[2] EXCEPT !.profit_rate_history = <<>>, !.markup = Zero ]
    /\ Less(R(10), mk.firms[1].markup)
    /\ Less(R(10), mk.firms[2].markup)
    /\ mk.firms[1].markup # mk.firms[2].markup

\* firm.adapt_markup is called on stand-alone firm i in the step taken
AdaptsFirm(i) ==
    /\ mk.on
    /\ mk'.calls = mk.calls + 1
    /\ \/ mk'.last = [ op |-> "adapt_markup", firm |-> i ]
       \/ mk'.last.op = "adapt_both"

\* the adjustment a full-window rule applies for a signal: one tenth of
\* speed x excess_demand when the history holds satisficing_window rates with
\* a mean at or above the aspiration rate, speed x excess_demand otherwise
FullWindowAdjustment(history, excess_demand, behavior) ==
    LET full == Times(behavior.markup_adjustment_speed, excess_demand)
    IN IF /\ history # <<>>
          /\ Len(history) = behavior.satisficing_window
          /\ LessEq(behavior.satisficing_aspiration_rate, Mean(history))
       THEN Times(full, R(100))
       ELSE full

\* C11: adapt_markup applies the reduced adjustment only when the history
\* holds a full window with a mean at or above the aspiration rate; with a
\* shorter history the markup moves by the full adjustment (plus the noise
\* drawn), for one of the signals and noise draws a caller can pass
FullWindowSatisficing ==
    [][ \A i \in 1..2 :
          AdaptsFirm(i) =>
            \E e \in Signals :
              \E n \in NormalDraws(mk.config.firm_behavior.markup_noise_std)
                           \cup { Zero } :
                mk'.firms[i].markup =
                    FlooredMarkup(mk.firms[i].markup,
                                  Plus(FullWindowAdjustment(
                                           mk'.firms[i].profit_rate_history, e,
                                           mk.config.firm_behavior), n)) ]_vars

\* the bankruptcy test with the configured exit threshold
BelowExitThreshold(f, cfg) ==
    /\ Negative(f.equity)
    /\ Positive(f.capital)
    /\ Less(Over(f.equity, f.capital), cfg.exit_threshold)

\* C12: firm.step of a Simulation period sets bankrupt on a firm that was not
\* bankrupt exactly when, after the financial update, equity < 0, capital > 0
\* and equity / capital is below the configured firms.exit_threshold
ExitThresholdInRun ==
    [][ Calls("firm.step") =>
          \A i \in 1..Len(sim.firms) :
              ~sim.firms[i].bankrupt =>
                  (sim'.firms[i].bankrupt <=>
                       BelowExitThreshold(sim'.firms[i], sim.config)) ]_vars

\* the consumption of a household whose expected income, previous before the
\* update, adapts to the realised income at the configured speed
ExpectedIncomeConsumption(hh, previous, realised, behavior) ==
    LET alpha == behavior.expectation_adaptation_speed
        expected == Plus(Times(alpha, realised),
                         Times(Minus(One, alpha), previous))
        desired == Plus(Times(hh.mpc, expected),
                        Times(Times(Minus(One, behavior.consumption_smoothing),
                                    R(40)),
                              hh.wealth))
    IN FMax(Zero, FMin(desired, Plus(realised, hh.wealth)))

\* C13: household.step of the first period consumes out of expected income,
\* which starts at the constructor income and moves to alpha x realised +
\* (1 - alpha) x previous before consumption is computed: consumption =
\* clamp(mpc x expected + (1 - smoothing) x 0.04 x wealth, 0, realised + wealth)
ConsumesFromExpectedIncome ==
    [][ (Calls("household.step") /\ sim.current_period = 1) =>
          \A j \in 1..Len(sim.households) :
              sim'.households[j].consumption =
                  ExpectedIncomeConsumption(sim.households[j],
                                            sim0.households[j].income,
                                            sim'.households[j].income,
                                            sim.config.household_behavior) ]_vars

\* C14: in a run whose households start with non-negative wealth, every
\* household's wealth is non-negative right after the save step of
\* household.step, in every period (income tax is debited from wealth between
\* two save steps)
WealthNonNegative ==
    ( /\ Called("household.step")
      /\ \A j \in 1..Len(sim0.households) : ~Negative(sim0.households[j].wealth) )
        => \A j \in 1..Len(sim.households) : ~Negative(sim.households[j].wealth)

\* C15: in every state of a Simulation run a household is employed if and
\* only if it has an employer id, and a household with a positive wage is
\* employed; the initial assignment, labour separations and matching keep this
EmploymentFlags ==
    (mk = MkIdle) =>
        \A j \in 1..Len(sim.households) :
            LET hh == sim.households[j]
            IN /\ hh.employed <=> (hh.employer_id # NoEmployer)
               /\ Positive(hh.wage) => hh.employed

\* labor_market.clear has just separated some households and matched others:
\* a household that started employed is now unemployed, and another one was
\* separated and then matched to a different firm
EmploymentFlagsWitness ==
    /\ Called("labor_market.clear")
    /\ AsInitialized
    /\ sim.labor_market.total_separations > 0
    /\ sim.labor_market.total_matches > 0
    /\ \E j \in 1..Len(sim.households) :
           /\ sim0.households[j].employed
           /\ ~sim.households[j].employed
           /\ sim.households[j].employer_id = NoEmployer
           /\ sim.households[j].wage = Zero
    /\ \E j \in 1..Len(sim.households) :
           /\ sim0.households[j].employed
           /\ sim.households[j].employed
           /\ sim.households[j].employer_id # sim0.households[j].employer_id
           /\ Positive(sim.households[j].wage)

\* C16: after every central_bank.step, whatever the Taylor-rule configuration
\* (active or not) and the observations reported, the policy rate is at least
\* taylor_rule.lower_bound
RateLowerBound ==
    (mk.on /\ mk.last = "step") =>
        LessEq(mk.taylor.lower_bound, mk.central_bank.policy_rate)

\* Bank.step working from a given policy rate
BankStepFrom(b, policy_rate, behavior) ==
    update_capital(calculate_income(set_lending_rate(b, policy_rate, behavior)))

\* C17: bank.step of a Simulation period sets every bank's lending rate from
\* the policy rate last passed to set_policy_rate (the central bank's rate of
\* the period): rate = policy rate + base markup + risk sensitivity x NPL /
\* loans, and interest income, interest expense and profit follow from it
LendingRateFromPolicyRate ==
    [][ Calls("bank.step") =>
          \A b \in 1..Len(sim.banks) :
              sim'.banks[b] = BankStepFrom(sim.banks[b],
                                           sim.central_bank.policy_rate,
                                           sim.config.bank_behavior) ]_vars

\* bank.evaluate_loan has just returned on the stand-alone bank
Evaluated == mk.on /\ mk.last.op = "evaluate_loan"

\* the bank's capital ratio is at least requirement + buffer
CapitalGate ==
    LessEq(Plus(mk.config.banks.capital_requirement,
                mk.config.bank_behavior.capital_buffer),
           capital_ratio(mk.bank, mk.config))

\* C18: with noise std 0 or no rng supplied, evaluate_loan approves exactly
\* when the bank meets its capital requirement, borrower revenue > 0, borrower
\* equity >= 0.5 x amount and revenue / (amount x lending rate) >=
\* lending_threshold
DeterministicApproval ==
    ( /\ Evaluated
      /\ mk.config.bank_behavior.credit_score_noise_std = Zero \/ ~mk.last.rng )
        => ( mk.last.approved <=>
               /\ CapitalGate
               /\ Positive(mk.last.revenue)
               /\ LessEq(Times(R(500), mk.last.amount), mk.last.equity)
               /\ LessEq(mk.config.bank_behavior.lending_threshold,
                         Over(mk.last.revenue,
                              Times(mk.last.amount, mk.bank.interest_rate))) )

\* a bank with loans on its book and a lending rate moved away from the
\* constructor's approves a loan by the deterministic rule although an rng
\* was supplied (noise std 0)
DeterministicApprovalWitness ==
    /\ Evaluated
    /\ mk.last.rng
    /\ mk.config.bank_behavior.credit_score_noise_std = Zero
    /\ Positive(mk.bank.loans)
    /\ mk.bank.interest_rate # R(50)
    /\ mk.last.amount = R(20000)
    /\ mk.last.approved

\* C19: on the deterministic and on the noisy path, whatever the noise drawn,
\* evaluate_loan rejects when the bank's capital ratio is below requirement +
\* buffer or borrower revenue is not positive
HardGatesReject ==
    (Evaluated /\ (~CapitalGate \/ ~Positive(mk.last.revenue))) => ~mk.last.approved

\* the noisy rule drew a large positive noise for a borrower with ample
\* equity and revenue, and the loan was rejected because the bank's capital
\* ratio is below requirement + buffer
HardGatesWitness ==
    /\ Evaluated
    /\ mk.last.rng
    /\ Positive(mk.config.bank_behavior.credit_score_noise_std)
    /\ Less(One, mk.last.noise)
    /\ ~CapitalGate
    /\ mk.last.revenue = R(2000)
    /\ mk.last.equity = R(10000)
    /\ ~mk.last.approved

\* expenditure after a fiscal rule that acts only on an excessive deficit
DeficitRuleExpenditure(g, fiscal) ==
    LET ratio == Over(FAbs(g.deficit), g.gdp_estimate)
        gap == Minus(ratio, fiscal.deficit_target)
    IN IF fiscal.active /\ Positive(g.gdp_estimate) /\ Positive(gap)
       THEN FMax(Minus(g.expenditure,
                       Times(Times(fiscal.deficit_adjustment_speed, gap),
                             g.gdp_estimate)),
                 Zero)
       ELSE g.expenditure

\* C20: government.step never raises expenditure: when |deficit| / gdp exceeds
\* the deficit target it lowers expenditure by speed x gap x gdp, floored at 0,
\* and otherwise it leaves expenditure unchanged
FiscalRuleOnlyLowers ==
    [][ Calls("government.step") =>
          /\ LessEq(sim'.government.expenditure, sim.government.expenditure)
          /\ sim'.government.expenditure =
                 DeficitRuleExpenditure(sim.government, sim.config.fiscal_rule) ]_vars

\* the government deficits of the first n records, in order
SumDeficits(records, n) ==
    Sum([ t \in 1..n |-> records[t].government_deficit ])

\* C21: the deficit recorded for a period is that period's tax revenue minus
\* (expenditure + transfers); the recorded debt falls by the period's deficit
\* from the previous record's debt, starting from zero, so the debt after n
\* periods is minus the sum of the n recorded deficits
DeficitDebtAccounting ==
    Called("record") =>
        LET n == Len(sim.records)
            g == sim.government
        IN /\ sim.records[n].government_deficit =
                  Minus(g.tax_revenue, Plus(g.expenditure, g.transfer_spending))
           /\ \A t \in 1..n :
                  sim.records[t].government_debt =
                      Minus(IF t = 1 THEN Zero
                            ELSE sim.records[t - 1].government_debt,
                            sim.records[t].government_deficit)
           /\ sim.records[n].government_debt = Neg(SumDeficits(sim.records, n))

\* a run of MaxPeriods periods has been recorded in which the government ran
\* a deficit in every period, of different sizes, with tax revenue and
\* transfers paid in the last one
DeficitDebtWitness ==
    /\ Called("record")
    /\ AsInitialized
    /\ Len(sim.records) = MaxPeriods
    /\ \A t \in 1..MaxPeriods : Negative(sim.records[t].government_deficit)
    /\ sim.records[1].government_deficit # sim.records[2].government_deficit
    /\ Positive(sim.records[MaxPeriods].government_debt)
    /\ Positive(sim.government.tax_revenue)
    /\ Positive(sim.government.transfer_spending)

InventoryNonNegative ==
    (Called("goods_market.clear") \/ Called("firm.step")) =>
        \A i \in 1..Len(sim.firms) : ~Negative(sim.firms[i].inventory)

\* goods_market.clear has just run, after the firm.step of the same period:
\* a firm that produced sold part of its stock in the market and keeps the
\* rest, and the market recorded sales
InventoryWitness ==
    /\ Called("goods_market.clear")
    /\ AsInitialized
    /\ Positive(sim.goods_market.total_sales)
    /\ \E i \in 1..Len(sim.firms) :
           /\ ~sim.firms[i].bankrupt
           /\ Positive(sim.firms[i].output)
           /\ Positive(sim.firms[i].turnover)
           /\ Positive(sim.firms[i].inventory)

\* report.overall_score has just been read
Scored == mk.on /\ mk.last = "overall_score"

\* the weighted root-mean-square deviation over the results whose deviation
\* is a number
ValidScore(results, fast_fma) ==
    LET valid == Numbered(results)
        weights == Sum([ k \in 1..Len(valid) |-> results[valid[k]].weight ])
    IN IF valid = <<>> \/ weights = Zero THEN Inf
       ELSE [ inf |-> FALSE,
              v |-> Sqrt(Over(Sum(SquareTerms(results, valid, fast_fma)), weights)) ]

\* C24: overall_score is infinite whenever there is no valid result: with an
\* empty list of results, and with results that all have a NaN deviation
NoValidResultScoresInfinite ==
    ( /\ Scored
      /\ \A k \in 1..Len(mk.results) : mk.results[k].deviation.nan )
        => mk.score.inf

\* C25: a target whose statistic is NaN is reported with NaN deviation and
\* passed = false and adds nothing to the numerator and to the sum of weights
\* of the overall score, which is the weighted RMS deviation over the valid
\* results only
NaNTargetsLeaveScore ==
    Scored =>
        /\ \A k \in 1..Len(mk.results) :
               mk.results[k].simulated.nan =>
                   mk.results[k].deviation.nan /\ ~mk.results[k].passed
        /\ (\E k \in 1..Len(mk.results) : ~mk.results[k].deviation.nan)
               => mk.score = ValidScore(mk.results, mk.fast_fma)

\* the number of combinations of a grid
RECURSIVE GridSize(_)
GridSize(value_lists) ==
    IF value_lists = <<>> THEN 1
    ELSE Len(Head(value_lists)) * GridSize(Tail(value_lists))

\* the value of key j in the k-th combination of the Cartesian product taken
\* in key-insertion order
ComboValue(value_lists, k, j) ==
    LET later == GridSize(SubSeq(value_lists, j + 1, Len(value_lists)))
    IN value_lists[j][(((k - 1) \div later) % Len(value_lists[j])) + 1]

\* the positions of the combinations that did not raise
Succeeded(outcomes) == Where([ k \in 1..Len(outcomes) |-> outcomes[k] = "ok" ])

\* C26: parameter_sweep calls the factory exactly once for every combination
\* of the Cartesian product, in key-insertion order, and returns one result
\* for each combination that did not raise, in visiting order; a combination
\* that raises in the factory, the run or the evaluation does not stop the
\* later ones
SweepVisitsEveryCombination ==
    (mk.on /\ mk.returned) =>
        LET n == GridSize(mk.value_lists)
            ok == Succeeded(mk.outcomes)
        IN /\ Len(mk.factory_calls) = n
           /\ \A k \in 1..n :
                  /\ Len(mk.factory_calls[k]) = Len(mk.value_lists)
                  /\ \A j \in 1..Len(mk.value_lists) :
                         mk.factory_calls[k][j] = ComboValue(mk.value_lists, k, j)
           /\ Len(mk.results) = Len(ok)
           /\ \A r \in 1..Len(ok) : mk.results[r] = mk.factory_calls[ok[r]]

\* a sweep over a 2 x 3 grid has returned: the second combination raised in
\* the run, the five others were evaluated, the last of them last
SweepWitness ==
    /\ mk.on
    /\ mk.returned
    /\ mk.value_lists = << <<1, 2>>, <<10, 20, 30>> >>
    /\ mk.outcomes[2] = "run raises"
    /\ Len(mk.factory_calls) = 6
    /\ Len(mk.results) = 5
    /\ mk.results[1] = <<1, 10>>
    /\ mk.results[2] = <<1, 30>>
    /\ mk.results[5] = <<2, 30>>

\* C27: on every step of an active central bank, the second and later ones
\* included, the smoothing term is the policy rate in force immediately
\* before the step: new rate = max(rho x rate before + (1 - rho) x Taylor
\* target, lower_bound)
SmoothingUsesRateInForce ==
    [][ (mk.on /\ mk'.on /\ mk' # mk /\ mk'.last = "step" /\ mk.taylor.active) =>
          LET cb == mk.central_bank
              taylor == mk.taylor
              target_rate ==
                  Plus(Plus(cb.inflation_target,
                            Times(taylor.inflation_coefficient,
                                  Minus(cb.current_inflation, cb.inflation_target))),
                       Times(taylor.output_gap_coefficient, cb.output_gap))
          IN mk'.central_bank.policy_rate =
                 FMax(Plus(Times(taylor.interest_rate_smoothing, cb.policy_rate),
                           Times(Minus(One, taylor.interest_rate_smoothing),
                                 target_rate)),
                      taylor.lower_bound) ]_vars

\* C28: after every Firm.step of a Simulation run, whatever hiring and firing
\* happened before it, every firm's unit price is strictly positive
PricePositive ==
    Called("firm.step") => \A i \in 1..Len(sim.firms) : Positive(sim.firms[i].price)

\* the money households and government spend on goods in a period
GoodsSpending(s) ==
    Plus(Sum([ j \in 1..Len(s.households) |-> s.households[j].consumption ]),
         s.government.expenditure)

\* the money the active firms receive as sales
GoodsReceipts(s) ==
    LET active == ActiveFirms(s.firms)
    IN Sum([ k \in 1..Len(active) |-> s.firms[active[k]].turnover ])

\* C29: in every period the money households and government spend on goods
\* (household consumption plus government expenditure) equals the money the
\* active firms receive as sales in goods_market.clear, up to the rounding of
\* the sums, also when a firm's allocated demand exceeds its stock
SpendingEqualsSales ==
    Called("goods_market.clear") => Close(GoodsSpending(sim), GoodsReceipts(sim))

\* C30: in every period the government expenditure that enters the deficit
\* computed by end_period equals the government demand that entered
\* goods_market.clear in the same period: the fiscal rule of government.step
\* does not make the two differ
DeficitFromGoodsDemand ==
    Called("government.end_period") =>
        /\ sim.government.expenditure = flow.government_demand
        /\ sim.government.deficit =
               Minus(sim.government.tax_revenue,
                     Plus(flow.government_demand, sim.government.transfer_spending))

\* the firms whose debt a credit clearing records as a default
Defaulting(s) ==
    { i \in 1..Len(s.firms) : s.firms[i].bankrupt /\ Positive(s.firms[i].debt) }

\* the banks that hold loans when a credit clearing starts
LoanHolders(s) == { b \in 1..Len(s.banks) : Positive(s.banks[b].loans) }

\* what one credit clearing adds to the banks' non-performing loans
DefaultsRecorded(before, after) ==
    Sum([ b \in 1..Len(before.banks) |->
            Minus(after.banks[b].non_performing_loans,
                  before.banks[b].non_performing_loans) ])

\* the debt of the defaulting firms times the base default rate
DefaultsDue(s) ==
    Sum([ i \in 1..Len(s.firms) |->
            IF i \in Defaulting(s)
            THEN Times(s.firms[i].debt, s.config.credit_market.default_rate_base)
            ELSE Zero ])

\* C31: when some bank holds loans, one credit clearing adds to the banks'
\* non-performing loans, for every bankrupt firm with positive debt, shares
\* that add up to firm.debt x default_rate_base (up to the rounding of the
\* sums), and the default counter rises by one per such firm
DefaultsProRata ==
    [][ (Calls("credit_market.clear") /\ LoanHolders(sim) # {}) =>
          /\ Close(DefaultsRecorded(sim, sim'), DefaultsDue(sim))
          /\ sim'.credit_market.total_defaults = Cardinality(Defaulting(sim)) ]_vars

\* C32: the debt of a bankrupt firm is recorded as a default in at most one
\* credit clearing of a run: a clearing in which every bankrupt firm with debt
\* was already recorded by an earlier clearing adds nothing to the banks'
\* non-performing loans and counts no default
DefaultRecordedOnce ==
    [][ (Calls("credit_market.clear") /\ Defaulting(sim) \subseteq flow.defaulted) =>
          /\ \A b \in 1..Len(sim.banks) :
                 sim'.banks[b].non_performing_loans =
                     sim.banks[b].non_performing_loans
          /\ sim'.credit_market.total_defaults = 0 ]_vars

\* C33: in credit_market.clear exactly the non-bankrupt firms with cash < 0
\* apply, in population order and to the banks in turn; an application is
\* granted if and only if the bank's evaluate_loan, on the bank's book as it
\* stands at that point of the clearing, returns true or rationing is
\* disabled; applications = approvals + rejections after the clear, and
\* without rationing nothing is rejected
CreditClearingRule ==
    [][ (mk.on /\ mk'.on /\ mk'.calls # mk.calls) =>
          LET ap == Where([ i \in 1..Len(mk.firms) |->
                              ~mk.firms[i].bankrupt /\ Negative(mk.firms[i].cash) ])
              BankOf(k) == ((k - 1) % Len(mk.banks)) + 1
              Amount(k) == FAbs(mk.firms[ap[k]].cash)
              Granted(k) ==
                  mk'.firms[ap[k]].debt = Plus(mk.firms[ap[k]].debt, Amount(k))
              Lent(k) ==
                  LET earlier == Where([ j \in 1..(k - 1) |->
                                           BankOf(j) = BankOf(k) /\ Granted(j) ])
                  IN [ n \in 1..Len(earlier) |-> Amount(earlier[n]) ]
              BankAt(k) ==
                  [ mk.banks[BankOf(k)] EXCEPT !.loans = AddAll(@, Lent(k)),
                                               !.deposits = AddAll(@, Lent(k)) ]
              granted == Cardinality({ k \in 1..Len(ap) : Granted(k) })
          IN /\ mk'.market.total_applications = Len(ap)
             /\ \A i \in 1..Len(mk.firms) :
                    (\A k \in 1..Len(ap) : ap[k] # i) =>
                        /\ mk'.firms[i].cash = mk.firms[i].cash
                        /\ mk'.firms[i].debt = mk.firms[i].debt
             /\ \A k \in 1..Len(ap) :
                    /\ Granted(k) <=>
                         \/ evaluate_loan(BankAt(k), Amount(k),
                                          mk.firms[ap[k]].equity,
                                          mk.firms[ap[k]].turnover, mk.config)
                         \/ ~mk.config.credit_market.rationing
                    /\ mk'.firms[ap[k]].cash =
                           Plus(mk.firms[ap[k]].cash,
                                IF Granted(k) THEN Amount(k) ELSE Zero)
                    /\ ~Granted(k) => mk'.firms[ap[k]].debt = mk.firms[ap[k]].debt
             /\ mk'.market.total_approvals = granted
             /\ mk'.market.total_rejections = Len(ap) - granted
             /\ mk'.market.total_applications =
                    mk'.market.total_approvals + mk'.market.total_rejections
             /\ ~mk.config.credit_market.rationing =>
                    mk'.market.total_rejections = 0 ]_vars

\* a clearing with rationing has granted one application and rejected two,
\* one of them because the loan just granted used up the bank's capital
\* headroom
CreditClearingWitness ==
    /\ mk.on
    /\ mk.calls = 1
    /\ mk.config.credit_market.rationing
    /\ mk.market.total_applications = 3
    /\ mk.market.total_approvals = 1
    /\ mk.market.total_rejections = 2
    /\ mk.firms[1].debt = R(9000)
    /\ mk.firms[3].cash = R(-1000)
    /\ mk.firms[3].equity = R(2000)
    /\ mk.banks[1].loans = R(9000)

\* the noisy path of evaluate_loan has just returned with a noise draw of 0
ZeroNoiseEvaluated ==
    /\ Evaluated
    /\ mk.last.rng
    /\ Positive(mk.config.bank_behavior.credit_score_noise_std)
    /\ mk.last.noise = Zero

\* what the deterministic path decides for the call just made
DeterministicDecision ==
    evaluate_loan(mk.bank, mk.last.amount, mk.last.equity, mk.last.revenue,
                  mk.config)

\* borrower equity is at least 0.5 x amount
CollateralMet == LessEq(Times(R(500), mk.last.amount), mk.last.equity)

\* revenue / (amount x lending rate) is at least lending_threshold
CoverageMet ==
    LessEq(mk.config.bank_behavior.lending_threshold,
           Over(mk.last.revenue, Times(mk.last.amount, mk.bank.interest_rate)))

RngReachesNoisyMethods ==
    [][ /\ ( /\ Calls("goods_market.clear")
             /\ Positive(sim.config.firm_behavior.markup_noise_std)
             /\ \E i \in 1..Len(sim.firms) : ~sim.firms[i].bankrupt )
            => sim'.rng.pos > sim.rng.pos
        /\ ( /\ Calls("credit_market.clear")
             /\ Positive(sim.config.bank_behavior.credit_score_noise_std)
             /\ \E i \in 1..Len(sim.firms) :
                    /\ ~sim.firms[i].bankrupt
                    /\ Negative(sim.firms[i].cash)
                    /\ Positive(sim.firms[i].turnover)
                    /\ \A b \in 1..Len(sim.banks) :
                           meets_capital_requirement(sim.banks[b], sim.config) )
            => sim'.rng.pos > sim.rng.pos ]_vars

\* the labour market as matching finds it: after the separations of the clear
AfterSeparations(s) ==
    exogenous_separations([ firms |-> s.firms, households |-> s.households,
                            rng |-> s.rng, market |-> s.labor_market ],
                          s.config)

\* the households a labour clearing matched to firm i
HiredBy(before, after, i) ==
    { j \in 1..Len(before.households) :
        /\ ~before.households[j].employed
        /\ after.households[j].employed
        /\ after.households[j].employer_id = i }

\* C36: in labour_market.clear the non-bankrupt firms with vacancies are
\* served in population order: a firm is served only when the firms before it
\* are full or the seekers have run out, and takes seekers that come after
\* those of the firms before it; every seeker is considered at most once (one
\* draw each); a firm hires at most the vacancies it posted and its vacancies
\* fall by one per hire; nobody is hired while employed, by a bankrupt firm or
\* by a firm without vacancies
MatchingDiscipline ==
    [][ Calls("labor_market.clear") =>
          LET before == AfterSeparations(sim)
              found == Seekers(before.households, before.rng, sim.config)
              Hires(i) == HiredBy(before, sim', i)
              hired == UNION { Hires(i) : i \in 1..Len(sim.firms) }
          IN /\ \A j \in 1..Len(sim.households) :
                    before.households[j].employed =>
                        sim'.households[j] = before.households[j]
             /\ \A j \in hired : \E k \in 1..Len(found.seekers) : found.seekers[k] = j
             /\ \A i \in 1..Len(sim.firms) :
                    /\ LessEq(N(Cardinality(Hires(i))), before.firms[i].vacancies)
                    /\ sim'.firms[i].vacancies =
                           Minus(before.firms[i].vacancies, N(Cardinality(Hires(i))))
                    /\ sim'.firms[i].employees =
                           before.firms[i].employees + Cardinality(Hires(i))
                    /\ before.firms[i].bankrupt => Hires(i) = {}
             /\ \A i1, i2 \in 1..Len(sim.firms) :
                    (i1 < i2 /\ Hires(i2) # {}) =>
                        /\ \A j1 \in Hires(i1), j2 \in Hires(i2) : j1 < j2
                        /\ ( /\ Positive(before.firms[i1].vacancies)
                             /\ ~before.firms[i1].bankrupt )
                               => sim'.firms[i1].vacancies = Zero
             /\ sim'.rng.pos - found.rng.pos <= Len(found.seekers)
             /\ sim'.labor_market.total_matches = Cardinality(hired) ]_vars

\* a labour clearing in which two firms hired, the second after the first
\* had filled its vacancies, and one seeker was turned down
MatchingWitness ==
    /\ Called("labor_market.clear")
    /\ AsInitialized
    /\ sim.labor_market.total_matches >= 2
    /\ \E i1, i2 \in 1..Len(sim.firms), j1, j2 \in 1..Len(sim.households) :
           /\ i1 < i2
           /\ j1 < j2
           /\ sim.households[j1].employed /\ sim.households[j1].employer_id = i1
           /\ sim.households[j2].employed /\ sim.households[j2].employer_id = i2
           /\ sim.households[j1].wage = sim.firms[i1].wage_rate
           /\ sim.households[j2].wage = sim.firms[i2].wage_rate
           /\ sim.firms[i1].vacancies = Zero
    /\ \E j \in 1..Len(sim.households) : ~sim.households[j].employed

\* the demand share of firm i among the active firms of s
DemandShare(s, i) ==
    LET active == ActiveFirms(s.firms)
        dearest == CHOOSE p \in { s.firms[active[k]].price : k \in 1..Len(active) } :
                       \A k \in 1..Len(active) : LessEq(s.firms[active[k]].price, p)
        W(k) == FMax(Plus(Minus(dearest, s.firms[k].price), Eps), Eps)
        total == Sum([ k \in 1..Len(active) |-> W(active[k]) ])
    IN Over(W(i), total)

TransfersSet(s) ==
    Sum([ j \in 1..Len(s.households) |-> s.households[j].transfer_income ])

OutputNeverRises ==
    [][ LessEq(mk'.firm.output, mk.firm.output) ]_vars

\* the float one unit in the last place above a positive float
NextUp(a) == Plus(a, Ulp(a))

\* C39: the output produced by Firm.step exceeds the output of the previous
\* step by at most one unit in the last place of that output, the rounding
\* of employees x (previous output / employees), whatever hiring, firing or
\* sales happened in between; nothing else writes output, and a firm
\* stepping without employees produces nothing
OutputRisesByRoundingOnly ==
    [][ /\ \/ LessEq(mk'.firm.output, mk.firm.output)
           \/ Positive(mk.firm.output)
                /\ mk'.firm.output = NextUp(mk.firm.output)
        /\ mk'.last # "step" => mk'.firm.output = mk.firm.output
        /\ (mk'.last = "step" /\ ~mk.firm.bankrupt /\ mk.firm.employees = 0)
             => mk'.firm.output = Zero ]_vars

\* a firm that took on workers and wanted to produce more than before has
\* stepped, and still produced a positive output
OutputWitness ==
    /\ mk.on
    /\ mk.last = "step"
    /\ mk.hired > 0
    /\ ~mk.firm.bankrupt
    /\ Positive(mk.firm.output)
    /\ Less(mk.firm.output, mk.firm.desired_production)
    /\ Less(mk.firm.output,
            Times(mk.firm.capital, mk.config.firm_behavior.capacity_utilization_target))

\* the last n entries of a sequence, or all of it when it is shorter
MostRecent(seq, n) ==
    SubSeq(seq, Len(seq) - Min(Len(seq), n) + 1, Len(seq))

\* C40: after any sequence of adapt_markup calls the profit-rate history
\* holds at most satisficing_window entries, and they are the most recent
\* profit rates in the order they were recorded
ProfitHistoryBounded ==
    mk.on =>
      /\ Len(mk.firm.profit_rate_history)
           <= mk.config.firm_behavior.satisficing_window
      /\ mk.firm.profit_rate_history
           = MostRecent(mk.recorded, mk.config.firm_behavior.satisficing_window)

\* more rates were recorded than the window holds, and the two kept differ
\* from each other and from the one dropped
ProfitHistoryWitness ==
    /\ mk.on
    /\ mk.config.firm_behavior.satisficing_window = 2
    /\ Len(mk.recorded) > 2
    /\ Len(mk.firm.profit_rate_history) = 2
    /\ mk.firm.profit_rate_history[1] # mk.firm.profit_rate_history[2]
    /\ mk.recorded[1] # mk.firm.profit_rate_history[1]
    /\ mk.recorded[1] # mk.firm.profit_rate_history[2]

=============================================================================
